---------------------------- MODULE Spec2Model ----------------------------
(***************************************************************************)
(* Edge telemetry pipeline of rasperature (pi-app).                        *)
(*                                                                         *)
(*   CloudPublisher (cloud_publisher.py): downsample filter, publish       *)
(*   queue / batcher, offline buffer.        Specification: Spec           *)
(*   SensorManager (sensor_manager.py): start/stop of the collection       *)
(*   worker thread.                          Specification: SpecMgr        *)
(*   The same with a fair scheduler.         Specification: SpecMgrLive    *)
(*   CloudPublisher.should_publish as a pure function over drawn inputs.   *)
(*                                           Specification: SpecFilter     *)
(*   publish() of readings with differing metric sets.                     *)
(*                                           Specification: SpecSnapshot   *)
(*   app.py: configuration updates and process restarts around the         *)
(*   publisher.                              Specification: SpecApp        *)
(*   SensorManager: add_sensor / remove_sensor / initialize_from_config.   *)
(*                                           Specification: SpecSensors    *)
(*   SensorManager: the collection tick as one step, beside sensor and     *)
(*   device updates.                         Specification: SpecTick       *)
(*   The same with a fair scheduler.         Specification: SpecTickLive   *)
(*   The collection tick step by step, beside add_sensor / remove_sensor   *)
(*   on request threads.                     Specification: SpecRace       *)
(*   app.py: shutdown_handler beside a worker that is publishing.          *)
(*                                           Specification: SpecShutdown   *)
(*   publish() of the readings of one slowly drifting sensor.              *)
(*                                           Specification: SpecDrift      *)
(*   SensorManager: single reads (read_sensor) beside the ticks and the    *)
(*   sensor set calls.                       Specification: SpecRead       *)
(*                                                                         *)
(* Metric values and thresholds are integers (fixed-point readings).       *)
(***************************************************************************)
EXTENDS Integers, Sequences, FiniteSets, TLC

\* ------------------------------------------------------------------ bounds
MaxRecords == 3
MaxReadings == 3
MaxBatchSize == 2
MaxWait == 1
MaxTime == 1
MaxValue == 1
MaxThreshold == 1
MaxFilterValue == 2
MaxThreads == 3
MaxDescriptors == 3
MaxEntries == 3

\* ----------------------------------------------------------- value domains
SensorIds == {"s1", "s2"}
MetricOrder == <<"temperature", "pressure">>
Metrics == {MetricOrder[i] : i \in 1..Len(MetricOrder)}
Values == 0..MaxValue
ThresholdMaps == UNION {[S -> 0..MaxThreshold] : S \in SUBSET Metrics}
EmptyMap == [m \in {} |-> 0]
Outcomes == {"ok", "fail", "raise"}

\* Request-handling threads that call into the SensorManager.
Callers == {"c1", "c2"}
\* Positions of a worker thread that has been started and has not returned.
Live == {"check", "tick", "sleep"}
\* Values of config['update_frequency']: the default and another one.
Frequencies == {"default", "other"}

\* Readings as read_with_metadata produces them: an ok reading carries a
\* metric map, an error reading carries the empty map. Sensor s1 reports
\* any temperature or fails to read; sensor s2 reports a steady temperature.
ReadingShapes ==
  [sensor_id : {"s1"}, status : {"ok"}, readings : [{"temperature"} -> Values]]
    \cup [sensor_id : {"s2"}, status : {"ok"}, readings : [{"temperature"} -> {0}]]
    \cup [sensor_id : {"s1"}, status : {"error"}, readings : {EmptyMap}]

\* Threshold maps handed to publish(): nothing configured, or a threshold
\* for temperature only.
PublishThresholds ==
  {EmptyMap} \cup {[m \in {"temperature"} |-> t] : t \in 1..MaxThreshold}

VARIABLES
  enabled, batch_size, max_batch_wait,
  message_queue, last_published_values,
  publish_count, error_count, last_batch_time,
  offline_buffer, offline_buffer_file,
  now,
  cloud_config, cloud_publisher, config_thresholds, data_callback,
  next_id, sent, enq_log, enq_last, trig_log, last,
  is_running, collection_thread, thread_pc, caller_pc, caller_op, join_target,
  update_frequency, op_log, mgr_last,
  sensors, config_sensors, device, tick_last, cfg_last, iter,
  sensor_error_count, fail_streak, read_last,
  flt_reading, flt_thresholds, flt_snapshots, flt_result

pubvars == <<enabled, batch_size, max_batch_wait, message_queue,
             last_published_values, publish_count, error_count,
             last_batch_time, offline_buffer, offline_buffer_file, now,
             next_id, sent, enq_log, enq_last, trig_log, last>>

\* app.py: sensor_manager.config['cloud'] and ['thresholds'], the global
\* cloud_publisher, and the callback registered with the manager
appvars == <<cloud_config, cloud_publisher, config_thresholds, data_callback>>

\* --------------------------------------------------------------- helpers
Abs(x) == IF x < 0 THEN -x ELSE x
Min(a, b) == IF a <= b THEN a ELSE b
Range(s) == {s[i] : i \in 1..Len(s)}
Ids(s) == [i \in 1..Len(s) |-> s[i].id]

RECURSIVE Reverse(_)
Reverse(s) == IF s = <<>> THEN <<>> ELSE Append(Reverse(Tail(s)), Head(s))

\* dict.get(key, default)
DictGet(d, k, default) == IF k \in DOMAIN d THEN d[k] ELSE default

\* d[k] = v on a dict
DictPut(d, k, v) == [x \in (DOMAIN d) \cup {k} |-> IF x = k THEN v ELSE d[x]]

\* The publisher's fields as an operation finds them.
NoPre == [message_queue |-> <<>>, last_published_values |-> EmptyMap,
          publish_count |-> 0, error_count |-> 0, last_batch_time |-> 0,
          offline_buffer |-> <<>>, sent |-> <<>>, enq_log |-> <<>>]

\* Record of the last operation: its input, what it did, and the state it
\* started from.
NoOp == [op |-> "none", input |-> <<>>, evaluated |-> {}, attempt |-> FALSE,
         batch |-> <<>>, outcome |-> <<>>, pre |-> NoPre]

mgrvars == <<is_running, collection_thread, thread_pc, caller_pc, caller_op,
             join_target, update_frequency, op_log, mgr_last>>

fltvars == <<flt_reading, flt_thresholds, flt_snapshots, flt_result>>

\* BaseSensor.error_count of the sensor of every id, the number of failed
\* reads of that sensor since its last successful one, and the record of the
\* last single read
errvars == <<sensor_error_count, fail_streak, read_last>>
\* SensorManager: the sensors dict (its keys in insertion order),
\* config['sensors'] and the device entries of config; the worker's
\* iterator over the sensors dict
snsvars == <<sensors, config_sensors, device, tick_last, cfg_last, iter,
             errvars>>

vars == <<pubvars, appvars, mgrvars, fltvars, snsvars>>

\* ===================================================== CloudPublisher ====

\* Variant of ScanMetrics that also passes a change equal to the threshold.
RECURSIVE ScanMetricsInclusive(_, _, _, _)
ScanMetricsInclusive(i, current_readings, last_reading, thresholds) ==
  IF i > Len(MetricOrder) THEN FALSE
  ELSE LET metric == MetricOrder[i] IN
       IF /\ metric \in DOMAIN current_readings
          /\ metric \in DOMAIN last_reading
          /\ Abs(current_readings[metric] - last_reading[metric])
               >= DictGet(thresholds, metric, 0)
       THEN TRUE
       ELSE ScanMetricsInclusive(i + 1, current_readings, last_reading,
                                 thresholds)

\* The loop of should_publish over the metrics of the new reading, in dict
\* order, returning at the first metric that moved beyond its threshold.
RECURSIVE ScanMetrics(_, _, _, _)
ScanMetrics(i, current_readings, last_reading, thresholds) ==
  IF i > Len(MetricOrder) THEN FALSE
  ELSE LET metric == MetricOrder[i] IN
       IF /\ metric \in DOMAIN current_readings
          /\ metric \in DOMAIN last_reading
          /\ Abs(current_readings[metric] - last_reading[metric])
               > DictGet(thresholds, metric, 0)
       THEN TRUE
       ELSE ScanMetrics(i + 1, current_readings, last_reading, thresholds)

\* Variant of should_publish without the first-reading return: a sensor
\* without snapshot is compared against an empty snapshot.
should_publish_no_cold_start(reading, thresholds, lpv) ==
  ScanMetrics(1, reading.readings,
              DictGet(lpv, reading.sensor_id, EmptyMap), thresholds)

should_publish(reading, thresholds, lpv) ==
  IF reading.sensor_id \notin DOMAIN lpv THEN TRUE
  ELSE ScanMetrics(1, reading.readings, lpv[reading.sensor_id], thresholds)

\* Variant of FilterEvaluates without the status test.
FilterEvaluatesAnyStatus(reading) == reading.status \in {"ok", "error"}

\* The condition of the filter loop in publish(); `and` short-circuits, so
\* should_publish is evaluated only for ok readings.
FilterEvaluates(reading) == reading.status = "ok"

AcceptReading(reading, thresholds, lpv) ==
  FilterEvaluates(reading) /\ should_publish(reading, thresholds, lpv)

\* Variant of SnapshotOf that merges the new metrics into the old snapshot.
SnapshotOfMerge(reading, lpv) ==
  LET old == DictGet(lpv, reading.sensor_id, EmptyMap)
      new == reading.readings
  IN DictPut(lpv, reading.sensor_id,
             [m \in (DOMAIN old) \cup (DOMAIN new) |->
                IF m \in DOMAIN new THEN new[m] ELSE old[m]])

\* Variant of SnapshotOf that keeps the snapshot a sensor already has.
SnapshotOfFirstOnly(reading, lpv) ==
  IF reading.sensor_id \in DOMAIN lpv THEN lpv
  ELSE DictPut(lpv, reading.sensor_id, reading.readings)

\* The snapshot stored for an accepted reading: reading['readings'].copy()
SnapshotOf(reading, lpv) == DictPut(lpv, reading.sensor_id, reading.readings)

\* Variant of the filter loop that stores the metric map of every ok reading
\* it sees, accepted or not.
RECURSIVE FilterReadingsLastSeen(_, _, _)
FilterReadingsLastSeen(readings, thresholds, acc) ==
  IF readings = <<>> THEN acc
  ELSE LET reading == Head(readings)
           pass == AcceptReading(reading, thresholds, acc.lpv)
       IN FilterReadingsLastSeen(Tail(readings), thresholds,
            [lpv |-> IF FilterEvaluates(reading)
                     THEN SnapshotOf(reading, acc.lpv) ELSE acc.lpv,
             filtered |-> IF pass THEN Append(acc.filtered, reading)
                                  ELSE acc.filtered,
             evaluated |-> IF FilterEvaluates(reading)
                           THEN acc.evaluated \cup {reading.id}
                           ELSE acc.evaluated])

\* The filter loop of publish(): acc = [lpv, filtered, evaluated].
RECURSIVE FilterReadings(_, _, _)
FilterReadings(readings, thresholds, acc) ==
  IF readings = <<>> THEN acc
  ELSE LET reading == Head(readings)
           pass == AcceptReading(reading, thresholds, acc.lpv)
       IN FilterReadings(Tail(readings), thresholds,
            [lpv |-> IF pass THEN SnapshotOf(reading, acc.lpv) ELSE acc.lpv,
             filtered |-> IF pass THEN Append(acc.filtered, reading)
                                  ELSE acc.filtered,
             evaluated |-> IF FilterEvaluates(reading)
                           THEN acc.evaluated \cup {reading.id}
                           ELSE acc.evaluated])

\* json.dumps(reading).encode('utf-8'): a bytes object holding the reading.
Encode(reading) == [bytes |-> reading]

\* Variant of PopBatch that takes from the tail of the queue (pop instead
\* of popleft).
RECURSIVE PopBatchNewest(_, _, _)
PopBatchNewest(queue, messages, size) ==
  IF queue # <<>> /\ Len(messages) < size
  THEN PopBatchNewest(SubSeq(queue, 1, Len(queue) - 1),
                      Append(messages, Encode(queue[Len(queue)])), size)
  ELSE [queue |-> queue, messages |-> messages]

\* The "prepare messages" loop of _publish_batch: popleft while the queue is
\* not empty and fewer than batch_size messages were taken.
RECURSIVE PopBatch(_, _, _)
PopBatch(queue, messages, size) ==
  IF queue # <<>> /\ Len(messages) < size
  THEN PopBatch(Tail(queue), Append(messages, Encode(Head(queue))), size)
  ELSE [queue |-> queue, messages |-> messages]

\* Number of publisher.publish() calls made for a batch: all of them, or up
\* to and including the first call that raises.
HandedCount(out) ==
  IF \E i \in DOMAIN out : out[i] = "raise"
  THEN CHOOSE i \in DOMAIN out :
         out[i] = "raise" /\ \A j \in 1..(i - 1) : out[j] # "raise"
  ELSE Len(out)

\* The try block raises: a publish() call raised, or a future.result() did.
BatchRaises(out) == \E i \in 1..HandedCount(out) : out[i] # "ok"

\* offline_buffer.json: whether it exists, whether it holds a complete JSON
\* document, and the entries written to it.
NoFile == [exists |-> FALSE, complete |-> FALSE, entries |-> <<>>]

\* json can serialize dicts, lists, strings and numbers, not bytes objects.
JsonSerializable(entry) == "bytes" \notin DOMAIN entry

\* Number of leading entries of the buffer that json can serialize.
RECURSIVE SerializablePrefix(_)
SerializablePrefix(buffer) ==
  IF buffer = <<>> \/ ~JsonSerializable(Head(buffer)) THEN 0
  ELSE 1 + SerializablePrefix(Tail(buffer))

\* _save_offline_buffer: open(file, 'w') and json.dump(offline_buffer, f).
\* The file is truncated and written entry by entry; at an entry that json
\* cannot serialize json.dump raises TypeError, which is caught, and the
\* file is left with what was written so far.
JsonDump(buffer) ==
  LET k == SerializablePrefix(buffer)
  IN [exists |-> TRUE, complete |-> k = Len(buffer),
      entries |-> SubSeq(buffer, 1, k)]

\* _load_offline_buffer: json.load of the file if it exists; an incomplete
\* document raises, which is caught, and the buffer stays as it was.
JsonLoad(file, buffer) ==
  IF file.exists /\ file.complete THEN file.entries ELSE buffer

\* Variant of BufferFailed that loses the oldest message of the batch.
BufferFailedLossy(buffer, messages) == buffer \o Reverse(Tail(messages))

\* Variant of BufferFailed that starts the buffer anew with the failed batch.
BufferFailedOverwrite(buffer, messages) == Reverse(messages)

\* Variant of BufferFailed that keeps only the newest message of the batch.
BufferFailedNewestOnly(buffer, messages) ==
  buffer \o <<messages[Len(messages)]>>

\* except branch: while messages: offline_buffer.append(messages.pop())
BufferFailed(buffer, messages) == buffer \o Reverse(messages)

\* Variant of ShouldFlush that needs more than batch_size queued records.
ShouldFlushAbove(queue_len, time_since_batch) ==
  queue_len > batch_size \/ time_since_batch >= max_batch_wait

\* Variant of ShouldFlush that flushes whenever a record was enqueued.
ShouldFlushAlways(queue_len, time_since_batch) == queue_len >= 1

\* The flush condition at the end of publish().
ShouldFlush(queue_len, time_since_batch) ==
  queue_len >= batch_size \/ time_since_batch >= max_batch_wait

\* Variant of publish_batch that retries: a failed batch stays queued.
publish_batch_retry(queue, out, cause) ==
  LET b == PopBatch(queue, <<>>, batch_size)
      h == HandedCount(out)
  IN /\ message_queue' = IF BatchRaises(out) THEN queue ELSE b.queue
     /\ sent' = sent \o [i \in 1..h |-> b.messages[i].bytes.id]
     /\ trig_log' = Append(trig_log, cause)
     /\ IF BatchRaises(out)
        THEN /\ error_count' = error_count + 1
             /\ offline_buffer' = BufferFailed(offline_buffer, b.messages)
             /\ offline_buffer_file' = JsonDump(offline_buffer')
             /\ UNCHANGED <<publish_count, last_batch_time>>
        ELSE /\ publish_count' = publish_count + Len(b.messages)
             /\ last_batch_time' = now
             /\ UNCHANGED <<error_count, offline_buffer,
                            offline_buffer_file>>

\* Variant of publish_batch that counts a delivered batch as one publish and
\* keeps last_batch_time.
publish_batch_count_one(queue, out, cause) ==
  LET b == PopBatch(queue, <<>>, batch_size)
      h == HandedCount(out)
  IN /\ message_queue' = b.queue
     /\ sent' = sent \o [i \in 1..h |-> b.messages[i].bytes.id]
     /\ trig_log' = Append(trig_log, cause)
     /\ IF BatchRaises(out)
        THEN /\ error_count' = error_count + 1
             /\ offline_buffer' = BufferFailed(offline_buffer, b.messages)
             /\ offline_buffer_file' = JsonDump(offline_buffer')
             /\ UNCHANGED <<publish_count, last_batch_time>>
        ELSE /\ publish_count' = publish_count + 1
             /\ UNCHANGED <<last_batch_time, error_count, offline_buffer,
                            offline_buffer_file>>

\* Variant of _publish_batch that stamps last_batch_time after a failed
\* attempt as well.
publish_batch_stamp_always(queue, out, cause) ==
  LET b == PopBatch(queue, <<>>, batch_size)
      h == HandedCount(out)
  IN /\ message_queue' = b.queue
     /\ sent' = sent \o [i \in 1..h |-> b.messages[i].bytes.id]
     /\ trig_log' = Append(trig_log, cause)
     /\ last_batch_time' = now
     /\ IF BatchRaises(out)
        THEN /\ error_count' = error_count + 1
             /\ offline_buffer' = BufferFailed(offline_buffer, b.messages)
             /\ offline_buffer_file' = JsonDump(offline_buffer')
             /\ UNCHANGED publish_count
        ELSE /\ publish_count' = publish_count + Len(b.messages)
             /\ UNCHANGED <<error_count, offline_buffer,
                            offline_buffer_file>>

\* _publish_batch on a non-empty queue, with the transport's outcome for
\* each message of the batch.
publish_batch(queue, out, cause) ==
  LET b == PopBatch(queue, <<>>, batch_size)
      h == HandedCount(out)
  IN /\ message_queue' = b.queue
     /\ sent' = sent \o [i \in 1..h |-> b.messages[i].bytes.id]
     /\ trig_log' = Append(trig_log, cause)
     /\ IF BatchRaises(out)
        THEN /\ error_count' = error_count + 1
             /\ offline_buffer' = BufferFailed(offline_buffer, b.messages)
             /\ offline_buffer_file' = JsonDump(offline_buffer')
             /\ UNCHANGED <<publish_count, last_batch_time>>
        ELSE /\ publish_count' = publish_count + Len(b.messages)
             /\ last_batch_time' = now
             /\ UNCHANGED <<error_count, offline_buffer,
                            offline_buffer_file>>

BatchLen(queue) == Len(PopBatch(queue, <<>>, batch_size).messages)

Pre == [message_queue |-> message_queue,
        last_published_values |-> last_published_values,
        publish_count |-> publish_count, error_count |-> error_count,
        last_batch_time |-> last_batch_time,
        offline_buffer |-> offline_buffer, sent |-> sent, enq_log |-> enq_log]

CallInfo(op, input, evaluated) ==
  [NoOp EXCEPT !.op = op, !.input = input, !.evaluated = evaluated,
               !.pre = Pre]

AttemptInfo(op, input, evaluated, queue, out) ==
  [op |-> op, input |-> input, evaluated |-> evaluated, attempt |-> TRUE,
   batch |-> PopBatch(queue, <<>>, batch_size).messages,
   outcome |-> SubSeq(out, 1, HandedCount(out)), pre |-> Pre]

\* The metric map of the most recently enqueued record of every sensor,
\* after the records of `filtered` were appended to the queue in order.
RECURSIVE LastEnqueued(_, _)
LastEnqueued(acc, filtered) ==
  IF filtered = <<>> THEN acc
  ELSE LastEnqueued(DictPut(acc, Head(filtered).sensor_id,
                            Head(filtered).readings), Tail(filtered))

\* Variant of PublishReturns that ignores the enabled flag.
PublishReturnsNever(flag) == FALSE

\* The guard at the head of publish(): `if not self.enabled: return`.
PublishReturns(flag) == ~flag

\* publish(readings, thresholds); the readings get the next record ids.
publish(shapes, thresholds) ==
    /\ LET n == Len(shapes)
           readings == [i \in 1..n |->
                          [id |-> next_id + i,
                           sensor_id |-> shapes[i].sensor_id,
                           status |-> shapes[i].status,
                           readings |-> shapes[i].readings]]
           f == FilterReadings(readings, thresholds,
                  [lpv |-> last_published_values, filtered |-> <<>>,
                   evaluated |-> {}])
           queue == message_queue \o f.filtered
       IN /\ next_id' = next_id + n
          /\ IF PublishReturns(enabled)
             THEN /\ last' = CallInfo("publish", readings, {})
                  /\ UNCHANGED <<message_queue, last_published_values,
                                 publish_count, error_count, last_batch_time,
                                 offline_buffer, offline_buffer_file,
                                 sent, enq_log, enq_last, trig_log>>
             ELSE /\ last_published_values' = f.lpv
                  /\ enq_log' = enq_log \o Ids(f.filtered)
                  /\ enq_last' = LastEnqueued(enq_last, f.filtered)
                  /\ IF f.filtered # <<>>
                        /\ ShouldFlush(Len(queue), now - last_batch_time)
                     THEN \E out \in [1..BatchLen(queue) -> Outcomes] :
                            /\ publish_batch(queue, out,
                                 IF Len(queue) >= batch_size THEN "size"
                                                            ELSE "time")
                            /\ last' = AttemptInfo("publish", readings,
                                                   f.evaluated, queue, out)
                     ELSE /\ message_queue' = queue
                          /\ last' = CallInfo("publish", readings, f.evaluated)
                          /\ UNCHANGED <<publish_count, error_count,
                                         last_batch_time, offline_buffer,
                                         offline_buffer_file, sent,
                                         trig_log>>
    /\ UNCHANGED <<enabled, batch_size, max_batch_wait, now>>

\* A publish() call with the readings of one collection tick.
Publish ==
  /\ \E n \in 1..Min(MaxReadings, MaxRecords - next_id) :
     \E thresholds \in PublishThresholds, shapes \in [1..n -> ReadingShapes] :
       publish(shapes, thresholds)
  /\ UNCHANGED <<appvars, mgrvars, fltvars, snsvars>>

\* The body of flush(): one _publish_batch if the queue is not empty.
flush(op) ==
  /\ IF message_queue # <<>>
     THEN \E out \in [1..BatchLen(message_queue) -> Outcomes] :
            /\ publish_batch(message_queue, out, "explicit")
            /\ last' = AttemptInfo(op, <<>>, {}, message_queue, out)
     ELSE /\ last' = CallInfo(op, <<>>, {})
          /\ UNCHANGED <<message_queue, publish_count, error_count,
                         last_batch_time, offline_buffer,
                         offline_buffer_file, sent, trig_log>>
  /\ UNCHANGED <<enabled, batch_size, max_batch_wait, last_published_values,
                 now, next_id, enq_log, enq_last>>

\* flush()
Flush ==
  /\ flush("flush")
  /\ UNCHANGED <<appvars, mgrvars, fltvars, snsvars>>

\* shutdown(): flush() if the publisher is enabled.
Shutdown ==
  /\ enabled
  /\ flush("shutdown")
  /\ UNCHANGED <<appvars, mgrvars, fltvars, snsvars>>

\* time.time() moves on between calls.
AdvanceTime ==
  /\ now < MaxTime
  /\ now' = now + 1
  /\ last' = CallInfo("time", <<>>, {})
  /\ UNCHANGED <<enabled, batch_size, max_batch_wait, message_queue,
                 last_published_values, publish_count, error_count,
                 last_batch_time, offline_buffer, offline_buffer_file,
                 next_id, sent, enq_log, enq_last, trig_log>>
  /\ UNCHANGED <<appvars, mgrvars, fltvars, snsvars>>

\* CloudPublisher.__init__ with the configured batch_size / max_batch_wait;
\* enabled is false when _initialize_publisher fails.
InitPub ==
  /\ enabled \in BOOLEAN
  /\ batch_size \in 1..MaxBatchSize
  /\ max_batch_wait \in 1..MaxWait
  /\ message_queue = <<>>
  /\ last_published_values = EmptyMap
  /\ publish_count = 0
  /\ error_count = 0
  /\ now = 0
  /\ last_batch_time = 0
  /\ offline_buffer = <<>>
  /\ offline_buffer_file = NoFile
  /\ next_id = 0
  /\ sent = <<>>
  /\ enq_log = <<>>
  /\ enq_last = EmptyMap
  /\ trig_log = <<>>
  /\ last = NoOp

\* No request is being handled.
InitCallers ==
  /\ caller_pc = [c \in Callers |-> "idle"]
  /\ caller_op = [c \in Callers |-> "none"]
  /\ join_target = [c \in Callers |-> 0]
  /\ update_frequency = "default"
  /\ op_log = [c \in Callers |->
                 [op |-> "none", frequency |-> FALSE, running |-> FALSE,
                  calls |-> <<>>, done |-> TRUE]]
  /\ mgr_last = [step |-> "none", caller |-> "c1",
                 pre |-> [is_running |-> FALSE, collection_thread |-> 0,
                          threads |-> 0, update_frequency |-> "default",
                          publish_count |-> 0, error_count |-> 0]]

\* SensorManager.__init__
InitMgr ==
  /\ is_running = FALSE
  /\ collection_thread = 0
  /\ thread_pc = <<>>
  /\ InitCallers

InitFltIdle ==
  /\ flt_reading = [sensor_id |-> "s1", status |-> "ok", readings |-> EmptyMap]
  /\ flt_thresholds = EmptyMap
  /\ flt_snapshots = EmptyMap
  /\ flt_result = "idle"

\* config['thresholds'] of the default configuration: a threshold for
\* temperature.
DefaultThresholds == [m \in {"temperature"} |-> MaxThreshold]

\* Variant of CallbackThresholds that keeps the thresholds of the default
\* configuration.
CallbackThresholdsCached(current) == DefaultThresholds

\* publish_callback: thresholds = sensor_manager.config.get('thresholds', {})
CallbackThresholds(current) == current

\* The publisher was constructed from an enabled cloud configuration.
InitCloud ==
  /\ cloud_config = [enabled |-> TRUE, batch_size |-> batch_size,
                     max_batch_wait |-> max_batch_wait]
  /\ cloud_publisher = "CloudPublisher"
  /\ config_thresholds = DefaultThresholds
  /\ data_callback = "publish_callback"

\* config['device_id'], ['customer_id'] and ['location']: the defaults and
\* another set of values.
DefaultDevice == [device_id |-> "rpi_001", customer_id |-> "customer_001",
                  location |-> "unknown"]
Devices == {DefaultDevice,
            [device_id |-> "rpi_002", customer_id |-> "customer_002",
             location |-> "lab"]}

\* Record of the last collection tick: the sensors dict and the device
\* entries it found, how each read() ended, the callback invocations it
\* made and how the callback ended.
NoTick == [sensors |-> <<>>, outcomes |-> <<>>,
           device |-> DefaultDevice, calls |-> <<>>, result |-> "none"]

\* Record of the last add_sensor / remove_sensor / initialize_from_config
\* call: its arguments, what it returned and the state it started from.
NoCfg == [op |-> "none", sensor_id |-> "", sensor_type |-> "",
          initialized |-> FALSE, result |-> "none",
          pre |-> [sensors |-> <<>>, config_sensors |-> <<>>]]

\* The entry of a deleted key in the entry table of a dict.
Dummy == "<dummy>"

\* The worker's iteration over self.sensors.values() in read_all_sensors:
\* the entry table of the dict since the iteration began (a deleted key
\* leaves a dummy entry, a new key is appended), the size the iterator
\* expects, its position, the sensor it has handed out, whether
\* remove_sensor has closed that sensor and the error_count the sensor
\* had then, and the readings so far.
NoIter == [active |-> FALSE, table |-> <<>>, size |-> 0, pos |-> 1,
           current |-> "", closed |-> FALSE, count |-> 0,
           read_closed |-> FALSE, readings |-> <<>>, outcomes |-> <<>>]

\* Record of the last GET /api/readings/<sensor_id>: the sensor asked for,
\* how its read() ended, whether read_sensor found the sensor, the reading
\* it returned and the sensor's error_count before and after the call.
NoReading == [sensor_id |-> "", status |-> "none"]
NoRead == [sensor_id |-> "", outcome |-> "none", found |-> FALSE,
           reading |-> NoReading, pre |-> 0, post |-> 0]

\* BaseSensor.__init__: self.error_count = 0, kept here for every sensor id
\* (0 for an id without a sensor); no read has failed yet.
InitErr ==
  /\ sensor_error_count = [s \in SensorIds |-> 0]
  /\ fail_streak = [s \in SensorIds |-> 0]
  /\ read_last = NoRead

\* SensorManager.__init__ on a new installation: no sensors, the default
\* configuration.
InitSns ==
  /\ sensors = <<>>
  /\ config_sensors = <<>>
  /\ device = DefaultDevice
  /\ tick_last = NoTick
  /\ cfg_last = NoCfg
  /\ iter = NoIter
  /\ InitErr

Init == InitPub /\ InitCloud /\ InitMgr /\ InitFltIdle /\ InitSns

Next == Publish \/ Flush \/ Shutdown \/ AdvanceTime

Spec == Init /\ [][Next]_vars

\* ====================================================== SensorManager ====

LiveWorkers == {t \in DOMAIN thread_pc : thread_pc[t] \in Live}

\* Calls that have passed the running test of start_collection and not yet
\* created their thread.
PendingStarts == {c \in Callers : caller_pc[c] \in {"start_set", "start_spawn"}}

\* Calls that may still create a thread: start_collection() calls under way
\* and update_config() calls that will restart the loop.
StartsInFlight ==
  {c \in Callers : \/ caller_pc[c] \in {"start_check", "start_set", "start_spawn"}
                   \/ caller_op[c] = "update"}

\* Room for one more worker thread within the bound.
ThreadsLeft == Len(thread_pc) + Cardinality(StartsInFlight) < MaxThreads

MgrUnchangedPub == UNCHANGED <<pubvars, appvars, fltvars, snsvars>>

\* The manager's fields as a call finds them.
MgrPre == [is_running |-> is_running, collection_thread |-> collection_thread,
           threads |-> Len(thread_pc), update_frequency |-> update_frequency,
           publish_count |-> publish_count, error_count |-> error_count]

\* Record of the last step of a caller thread.
MgrStep(step, c) == [step |-> step, caller |-> c, pre |-> MgrPre]

NoLog == [op |-> "none", frequency |-> FALSE, running |-> FALSE,
          calls |-> <<>>, done |-> TRUE]

\* How a call that has finished its current step goes on: update_config
\* calls start_collection() after stop_collection() has returned.
\* shutdown_handler goes on to cloud_publisher.shutdown().
AfterStop(c) ==
  IF caller_op[c] = "update" THEN "start_check"
  ELSE IF caller_op[c] = "shutdown" THEN "shutdown_flush"
  ELSE "idle"

\* The calls an update_config has made, once stop_collection() has returned.
LogAfterStop(c) ==
  IF caller_op[c] = "update"
  THEN [op_log EXCEPT ![c].calls = Append(@, "start")]
  ELSE op_log

\* The calls an update_config has made, once start_collection() has returned.
LogAfterStart(c) ==
  IF caller_op[c] = "update" THEN [op_log EXCEPT ![c].done = TRUE] ELSE op_log

\* A caller thread enters start_collection().
CallStart(c) ==
  /\ caller_pc[c] = "idle"
  /\ ThreadsLeft
  /\ caller_pc' = [caller_pc EXCEPT ![c] = "start_check"]
  /\ caller_op' = [caller_op EXCEPT ![c] = "start"]
  /\ op_log' = [op_log EXCEPT ![c] = NoLog]
  /\ mgr_last' = MgrStep("call", c)
  /\ UNCHANGED <<is_running, collection_thread, thread_pc, join_target,
                 update_frequency>>
  /\ MgrUnchangedPub

\* Variant of StartReturnsEarly that never returns early.
StartReturnsEarlyNever(running) == FALSE

\* start_collection: if self.is_running: return
StartReturnsEarly(running) == running

StartCheck(c) ==
  /\ caller_pc[c] = "start_check"
  /\ caller_pc' = [caller_pc EXCEPT
                     ![c] = IF StartReturnsEarly(is_running) THEN "idle"
                                                             ELSE "start_set"]
  /\ caller_op' = [caller_op EXCEPT
                     ![c] = IF StartReturnsEarly(is_running) THEN "none"
                                                             ELSE @]
  /\ op_log' = IF StartReturnsEarly(is_running) THEN LogAfterStart(c)
                                                ELSE op_log
  /\ mgr_last' = MgrStep(IF is_running THEN "start_running" ELSE "start", c)
  /\ UNCHANGED <<is_running, collection_thread, thread_pc, join_target,
                 update_frequency>>
  /\ MgrUnchangedPub

\* start_collection: self.is_running = True
StartSet(c) ==
  /\ caller_pc[c] = "start_set"
  /\ is_running' = TRUE
  /\ caller_pc' = [caller_pc EXCEPT ![c] = "start_spawn"]
  /\ mgr_last' = MgrStep("start", c)
  /\ UNCHANGED <<collection_thread, thread_pc, caller_op, join_target,
                 update_frequency, op_log>>
  /\ MgrUnchangedPub

\* threading.Thread(target=self._collection_loop).start(): one more worker,
\* at the test of its while loop.
SpawnWorker(threads) == Append(threads, "check")

\* start_collection: self.collection_thread = Thread(...); .start()
StartSpawn(c) ==
  /\ caller_pc[c] = "start_spawn"
  /\ thread_pc' = SpawnWorker(thread_pc)
  /\ collection_thread' = Len(thread_pc) + 1
  /\ caller_pc' = [caller_pc EXCEPT ![c] = "idle"]
  /\ caller_op' = [caller_op EXCEPT ![c] = "none"]
  /\ op_log' = LogAfterStart(c)
  /\ mgr_last' = MgrStep("start", c)
  /\ UNCHANGED <<is_running, join_target, update_frequency>>
  /\ MgrUnchangedPub

\* A caller thread enters stop_collection().
CallStop(c) ==
  /\ caller_pc[c] = "idle"
  /\ caller_pc' = [caller_pc EXCEPT ![c] = "stop_check"]
  /\ caller_op' = [caller_op EXCEPT ![c] = "stop"]
  /\ op_log' = [op_log EXCEPT ![c] = NoLog]
  /\ mgr_last' = MgrStep("call", c)
  /\ UNCHANGED <<is_running, collection_thread, thread_pc, join_target,
                 update_frequency>>
  /\ MgrUnchangedPub

\* Variant of StopReturnsEarly that never returns early.
StopReturnsEarlyNever(running) == FALSE

\* stop_collection: if not self.is_running: return
StopReturnsEarly(running) == ~running

StopCheck(c) ==
  /\ caller_pc[c] = "stop_check"
  /\ caller_pc' = [caller_pc EXCEPT
                     ![c] = IF StopReturnsEarly(is_running) THEN AfterStop(c)
                                                            ELSE "stop_set"]
  /\ caller_op' = [caller_op EXCEPT
                     ![c] = IF StopReturnsEarly(is_running) /\ @ = "stop"
                            THEN "none" ELSE @]
  /\ op_log' = IF StopReturnsEarly(is_running) THEN LogAfterStop(c)
                                               ELSE op_log
  /\ mgr_last' = MgrStep(IF is_running THEN "stop" ELSE "stop_idle", c)
  /\ UNCHANGED <<is_running, collection_thread, thread_pc, join_target,
                 update_frequency>>
  /\ MgrUnchangedPub

\* stop_collection: self.is_running = False; if self.collection_thread: join
StopSet(c) ==
  /\ caller_pc[c] = "stop_set"
  /\ is_running' = FALSE
  /\ IF collection_thread # 0
     THEN /\ join_target' = [join_target EXCEPT ![c] = collection_thread]
          /\ caller_pc' = [caller_pc EXCEPT ![c] = "stop_join"]
          /\ UNCHANGED <<caller_op, op_log>>
     ELSE /\ caller_pc' = [caller_pc EXCEPT ![c] = AfterStop(c)]
          /\ caller_op' = [caller_op EXCEPT
                             ![c] = IF @ = "stop" THEN "none" ELSE @]
          /\ op_log' = LogAfterStop(c)
          /\ UNCHANGED join_target
  /\ mgr_last' = MgrStep("stop", c)
  /\ UNCHANGED <<collection_thread, thread_pc, update_frequency>>
  /\ MgrUnchangedPub

JoinEnds(c) ==
  /\ caller_pc' = [caller_pc EXCEPT ![c] = AfterStop(c)]
  /\ caller_op' = [caller_op EXCEPT ![c] = IF @ = "stop" THEN "none" ELSE @]
  /\ op_log' = LogAfterStop(c)
  /\ join_target' = [join_target EXCEPT ![c] = 0]
  /\ mgr_last' = MgrStep("stop", c)
  /\ UNCHANGED <<is_running, collection_thread, thread_pc, update_frequency>>
  /\ MgrUnchangedPub

\* collection_thread.join(timeout=5) returns because the worker has exited.
JoinDone(c) ==
  /\ caller_pc[c] = "stop_join"
  /\ thread_pc[join_target[c]] = "exited"
  /\ JoinEnds(c)

\* collection_thread.join(timeout=5) returns after 5 seconds while the
\* worker is still in its tick or in time.sleep(update_frequency).
JoinTimeout(c) ==
  /\ caller_pc[c] = "stop_join"
  /\ thread_pc[join_target[c]] # "exited"
  /\ JoinEnds(c)

\* Variant of RestartNeeded that restarts whenever the frequency is given.
RestartNeededAlways(frequency, running) == frequency

\* update_config: if 'update_frequency' in updates and self.is_running
RestartNeeded(frequency, running) == frequency /\ running

\* update_config(updates): the configuration is updated; with an
\* update_frequency entry and a running loop, stop_collection() and then
\* start_collection() are called.
UpdateConfig(c) ==
  /\ caller_pc[c] = "idle"
  /\ \E frequency \in BOOLEAN, value \in Frequencies :
       LET restart == RestartNeeded(frequency, is_running) IN
       /\ restart => ThreadsLeft
       /\ update_frequency' = IF frequency THEN value ELSE update_frequency
       /\ caller_pc' = [caller_pc EXCEPT
                          ![c] = IF restart THEN "stop_check" ELSE "idle"]
       /\ caller_op' = [caller_op EXCEPT
                          ![c] = IF restart THEN "update" ELSE "none"]
       /\ op_log' = [op_log EXCEPT
                       ![c] = [op |-> "update", frequency |-> frequency,
                               running |-> is_running,
                               calls |-> IF restart THEN <<"stop">> ELSE <<>>,
                               done |-> ~restart]]
       /\ mgr_last' = MgrStep(IF ~frequency THEN "update_plain"
                              ELSE IF is_running THEN "update_running"
                              ELSE "update_idle", c)
  /\ UNCHANGED <<is_running, collection_thread, thread_pc, join_target>>
  /\ MgrUnchangedPub

WorkerUnchanged ==
  /\ UNCHANGED <<is_running, collection_thread, caller_pc, caller_op,
                 join_target, update_frequency, op_log, mgr_last>>
  /\ MgrUnchangedPub

\* Variant of LoopTest that ignores the flag.
LoopTestForever(running) == "tick"

\* while self.is_running: the worker begins a tick or returns.
LoopTest(running) == IF running THEN "tick" ELSE "exited"

\* _collection_loop: while self.is_running
WorkerCheck(t) ==
  /\ thread_pc[t] = "check"
  /\ thread_pc' = [thread_pc EXCEPT ![t] = LoopTest(is_running)]
  /\ WorkerUnchanged

\* How a read() of a sensor ends, and how a call of the callback ends:
\* publish() returns, also when a flush hit a transport failure and
\* _publish_batch put the batch into the offline buffer ("buffered"), or
\* the callback raises.
ReadOutcomes == {"ok", "error"}
CallbackOutcomes == {"returned", "buffered", "raised"}

\* Largest error_count of a sensor.
MaxErrors == 2

\* The reads that may fail: as among the reading shapes, those of sensor
\* s1, and only while its error_count is below MaxErrors.
MayFail(sensor_id, count) == sensor_id = "s1" /\ count < MaxErrors

\* Variant of ErrorCountAfter in which a successful read keeps the counter.
ErrorCountAfterKeep(count, outcome) ==
  IF outcome = "ok" THEN count ELSE count + 1

\* read_with_metadata(): self.error_count = 0 after a successful read(),
\* self.error_count += 1 after a failed one.
ErrorCountAfter(count, outcome) == IF outcome = "ok" THEN 0 ELSE count + 1

\* read_with_metadata() of a sensor with the given error_count: an
\* exception of read() becomes an error reading that carries the new
\* error_count.
read_with_metadata(sensor_id, outcome, count) ==
  IF outcome = "ok"
  THEN [sensor_id |-> sensor_id, status |-> "ok"]
  ELSE [sensor_id |-> sensor_id, status |-> "error",
        error_count |-> ErrorCountAfter(count, outcome)]

\* The ends of the read() calls of one pass over the dict.
TickOutcomes(dict, counts) ==
  {outcomes \in [1..Len(dict) -> ReadOutcomes] :
     \A i \in 1..Len(dict) :
       outcomes[i] = "error" => MayFail(dict[i], counts[dict[i]])}

\* The position of a sensor id in the dict
Position(dict, sensor_id) == CHOOSE i \in 1..Len(dict) : dict[i] = sensor_id

\* The error_count of every sensor after read_all_sensors() has read each
\* sensor of the dict once.
ErrorCountsAfter(dict, outcomes, counts) ==
  [s \in DOMAIN counts |->
     IF s \in Range(dict)
     THEN ErrorCountAfter(counts[s], outcomes[Position(dict, s)])
     ELSE counts[s]]

\* The failed reads of every sensor since its last successful one, after
\* each sensor of the dict was read once.
StreaksAfter(dict, outcomes, streaks) ==
  [s \in DOMAIN streaks |->
     IF s \notin Range(dict) THEN streaks[s]
     ELSE IF outcomes[Position(dict, s)] = "ok" THEN 0
     ELSE streaks[s] + 1]

\* Variant of read_all_sensors in which a failing read() ends the
\* iteration with nothing read.
read_all_sensors_raise(dict, outcomes, counts) ==
  IF \E i \in 1..Len(dict) : outcomes[i] # "ok"
  THEN <<>>
  ELSE [i \in 1..Len(dict) |->
          read_with_metadata(dict[i], outcomes[i], counts[dict[i]])]

\* read_all_sensors(): one reading of every sensor of the dict, in its
\* order. A sensor that is in the dict has is_active set: initialize()
\* clears it only on a sensor that add_sensor then does not keep.
read_all_sensors(dict, outcomes, counts) ==
  [i \in 1..Len(dict) |->
     read_with_metadata(dict[i], outcomes[i], counts[dict[i]])]

\* _collection_loop: reading['device_id' / 'customer_id' / 'location'] =
\* self.config[...] for each reading
AddMetadata(readings, config) ==
  [i \in 1..Len(readings) |->
     IF "error_count" \in DOMAIN readings[i]
     THEN [sensor_id |-> readings[i].sensor_id,
           status |-> readings[i].status,
           error_count |-> readings[i].error_count,
           device_id |-> config.device_id,
           customer_id |-> config.customer_id, location |-> config.location]
     ELSE [sensor_id |-> readings[i].sensor_id,
           status |-> readings[i].status, device_id |-> config.device_id,
           customer_id |-> config.customer_id,
           location |-> config.location]]

\* Variant of CallbackCalls that hands every reading over by itself.
CallbackCallsEach(callback, readings) ==
  IF callback # "None" /\ readings # <<>>
  THEN [i \in 1..Len(readings) |-> <<readings[i]>>]
  ELSE <<>>

\* _collection_loop: if self.data_callback and readings:
\* self.data_callback(readings). The batches handed to the callback.
CallbackCalls(callback, readings) ==
  IF callback # "None" /\ readings # <<>> THEN <<readings>> ELSE <<>>

\* How the callback part of a tick ends: "none" when the callback is not
\* called.
CallbackResults(calls) ==
  IF calls = <<>> THEN {"none"} ELSE CallbackOutcomes

\* Variant of AfterTick in which an exception of the callback ends the
\* thread.
AfterTickUncaught(result) == IF result = "raised" THEN "exited" ELSE "sleep"

\* _collection_loop: except Exception: print(...), then time.sleep(...)
AfterTick(result) == "sleep"

\* _collection_loop: the body of one tick, up to the sleep
WorkerTick(t) ==
  /\ thread_pc[t] = "tick"
  /\ \E outcomes \in TickOutcomes(sensors, sensor_error_count) :
       LET readings == AddMetadata(read_all_sensors(sensors, outcomes,
                                                    sensor_error_count),
                                   device)
           calls == CallbackCalls(data_callback, readings)
       IN \E result \in CallbackResults(calls) :
            /\ tick_last' = [sensors |-> sensors,
                             outcomes |-> outcomes, device |-> device,
                             calls |-> calls, result |-> result]
            /\ sensor_error_count' =
                 ErrorCountsAfter(sensors, outcomes, sensor_error_count)
            /\ fail_streak' = StreaksAfter(sensors, outcomes, fail_streak)
            /\ thread_pc' = [thread_pc EXCEPT ![t] = AfterTick(result)]
  /\ UNCHANGED <<is_running, collection_thread, caller_pc, caller_op,
                 join_target, update_frequency, op_log, mgr_last>>
  /\ UNCHANGED <<sensors, config_sensors, device, cfg_last, iter, read_last>>
  /\ UNCHANGED <<pubvars, appvars, fltvars>>

\* _collection_loop: time.sleep(update_frequency) returns
WorkerWake(t) ==
  /\ thread_pc[t] = "sleep"
  /\ thread_pc' = [thread_pc EXCEPT ![t] = "check"]
  /\ WorkerUnchanged

NextMgr ==
  \/ \E c \in Callers :
       \/ CallStart(c) \/ StartCheck(c) \/ StartSet(c) \/ StartSpawn(c)
       \/ CallStop(c) \/ StopCheck(c) \/ StopSet(c)
       \/ JoinDone(c) \/ JoinTimeout(c)
       \/ UpdateConfig(c)
  \/ \E t \in DOMAIN thread_pc :
       WorkerCheck(t) \/ WorkerTick(t) \/ WorkerWake(t)

\* The manager beside one enabled publisher.
InitManager == Init /\ enabled /\ batch_size = 1 /\ max_batch_wait = 1

SpecMgr == InitManager /\ [][NextMgr]_vars

\* A started worker thread is scheduled and its sleep ends.
WorkerStep(t) ==
  /\ t \in DOMAIN thread_pc
  /\ WorkerCheck(t) \/ WorkerTick(t) \/ WorkerWake(t)

SpecMgrLive ==
  SpecMgr /\ \A t \in 1..MaxThreads : WF_vars(WorkerStep(t))

\* ======================================= SensorManager: the sensor set ====

\* SENSOR_TYPES of sensors/__init__.py, and the types that requests name:
\* a registered one and one that is not registered.
SENSOR_TYPES == {"BMP280", "DHT22"}
RequestedTypes == {"BMP280", "XYZ"}

\* The sensors dict and config['sensors'] as a call finds them.
SensorState == [sensors |-> sensors, config_sensors |-> config_sensors]

\* Variant of add_sensor that registers the sensor before initialize().
add_sensor_register_first(state, sensor_id, sensor_type, initialized) ==
  IF sensor_id \in Range(state.sensors) \/ sensor_type \notin SENSOR_TYPES
  THEN [sensors |-> state.sensors, config_sensors |-> state.config_sensors,
        result |-> FALSE]
  ELSE [sensors |-> Append(state.sensors, sensor_id),
        config_sensors |-> Append(state.config_sensors,
                                  [id |-> sensor_id, type |-> sensor_type]),
        result |-> initialized]

\* add_sensor(sensor_id, sensor_type, sensor_config): False for an id that
\* is in the dict, for a type get_sensor_class does not know (its
\* ValueError is caught) and for a sensor whose initialize() fails;
\* otherwise the sensor is put into the dict and a descriptor is appended
\* to config['sensors'].
add_sensor(state, sensor_id, sensor_type, initialized) ==
  IF \/ sensor_id \in Range(state.sensors)
     \/ sensor_type \notin SENSOR_TYPES
     \/ ~initialized
  THEN [sensors |-> state.sensors, config_sensors |-> state.config_sensors,
        result |-> FALSE]
  ELSE [sensors |-> Append(state.sensors, sensor_id),
        config_sensors |-> Append(state.config_sensors,
                                  [id |-> sensor_id, type |-> sensor_type]),
        result |-> TRUE]

\* remove_sensor(sensor_id): False for an id that is not in the dict;
\* otherwise the sensor is closed and deleted and every descriptor with
\* its id is dropped from config['sensors'].
remove_sensor(state, sensor_id) ==
  IF sensor_id \notin Range(state.sensors)
  THEN [sensors |-> state.sensors, config_sensors |-> state.config_sensors,
        result |-> FALSE]
  ELSE [sensors |-> SelectSeq(state.sensors, LAMBDA x : x # sensor_id),
        config_sensors |-> SelectSeq(state.config_sensors,
                                     LAMBDA d : d.id # sensor_id),
        result |-> TRUE]

\* initialize_from_config(): add_sensor for each element of
\* config['sensors'], from position i on. The loop runs over the list
\* add_sensor appends to, so it also visits the appended descriptors.
RECURSIVE initialize_from_config(_, _, _)
initialize_from_config(state, i, initialized) ==
  IF i > Len(state.config_sensors) \/ i > Len(initialized)
  THEN state
  ELSE LET d == state.config_sensors[i]
           r == add_sensor(state, d.id, d.type, initialized[i])
       IN initialize_from_config(
            [sensors |-> r.sensors, config_sensors |-> r.config_sensors],
            i + 1, initialized)

\* The counters after add_sensor has made a sensor for the id (a new
\* BaseSensor has error_count 0) or remove_sensor has deleted the sensor of
\* the id; a call that returns False leaves the sensors as they are.
NewSensor(counts, sensor_id, result) ==
  IF result THEN [counts EXCEPT ![sensor_id] = 0] ELSE counts

SnsUnchanged ==
  /\ UNCHANGED <<device, tick_last, read_last>>
  /\ UNCHANGED <<pubvars, appvars, mgrvars, fltvars>>

\* POST /api/sensors: sensor_manager.add_sensor(...)
AddSensor ==
  /\ \E sensor_id \in SensorIds, sensor_type \in RequestedTypes,
        initialized \in BOOLEAN :
       LET r == add_sensor(SensorState, sensor_id, sensor_type, initialized)
       IN /\ Len(r.config_sensors) <= MaxDescriptors
          /\ (r.result /\ iter.active) => Len(iter.table) < MaxEntries
          /\ sensors' = r.sensors
          /\ config_sensors' = r.config_sensors
          /\ iter' = IF r.result /\ iter.active
                     THEN [iter EXCEPT !.table = Append(@, sensor_id)]
                     ELSE iter
          /\ cfg_last' = [op |-> "add", sensor_id |-> sensor_id,
                          sensor_type |-> sensor_type,
                          initialized |-> initialized, result |-> r.result,
                          pre |-> SensorState]
          /\ sensor_error_count' = NewSensor(sensor_error_count, sensor_id,
                                             r.result)
          /\ fail_streak' = NewSensor(fail_streak, sensor_id, r.result)
  /\ SnsUnchanged

\* DELETE /api/sensors/<sensor_id>: sensor_manager.remove_sensor(sensor_id)
RemoveSensor ==
  /\ \E sensor_id \in SensorIds :
       LET r == remove_sensor(SensorState, sensor_id)
       IN /\ sensors' = r.sensors
          /\ config_sensors' = r.config_sensors
          /\ iter' = IF r.result /\ iter.active
                     THEN [iter EXCEPT
                             !.table = [i \in DOMAIN @ |->
                                          IF @[i] = sensor_id THEN Dummy
                                                              ELSE @[i]],
                             !.closed = @ \/ iter.current = sensor_id,
                             !.count = IF iter.current = sensor_id
                                          /\ ~iter.closed
                                       THEN sensor_error_count[sensor_id]
                                       ELSE @]
                     ELSE iter
          /\ cfg_last' = [op |-> "remove", sensor_id |-> sensor_id,
                          sensor_type |-> "", initialized |-> FALSE,
                          result |-> r.result, pre |-> SensorState]
          /\ sensor_error_count' = NewSensor(sensor_error_count, sensor_id,
                                             r.result)
          /\ fail_streak' = NewSensor(fail_streak, sensor_id, r.result)
  /\ SnsUnchanged

\* The process ends and is started again: SensorManager() has no sensors
\* and loads config.json as save_config left it, and main() calls
\* initialize_from_config(); each initialize() succeeds or fails.
RestartManager ==
  /\ \E initialized \in [1..MaxDescriptors -> BOOLEAN] :
       LET loaded == [sensors |-> <<>>, config_sensors |-> config_sensors]
           r == initialize_from_config(loaded, 1, initialized)
       IN /\ Len(r.config_sensors) <= MaxDescriptors
          /\ sensors' = r.sensors
          /\ config_sensors' = r.config_sensors
          /\ cfg_last' = [op |-> "init", sensor_id |-> "", sensor_type |-> "",
                          initialized |-> FALSE, result |-> "none",
                          pre |-> loaded]
  /\ sensor_error_count' = [s \in SensorIds |-> 0]
  /\ fail_streak' = [s \in SensorIds |-> 0]
  /\ UNCHANGED iter
  /\ SnsUnchanged

NextSensors == AddSensor \/ RemoveSensor \/ RestartManager

SpecSensors == Init /\ [][NextSensors]_vars

\* ==================================== SensorManager: the collection tick ====

\* PUT /api/config with device_id, customer_id and location entries:
\* self.config.update(updates)
UpdateDevice ==
  /\ \E updates \in Devices : device' = updates
  /\ UNCHANGED <<sensors, config_sensors, tick_last, cfg_last, iter,
                 errvars>>
  /\ UNCHANGED <<pubvars, appvars, mgrvars, fltvars>>

\* The state after main() and start_collection() on a new installation:
\* the worker thread has been started; the publisher and the callback
\* exist if the cloud configuration is enabled. The loop is not stopped
\* here (SpecMgr has the stopping), so the running flag stays set.
InitTick ==
  /\ InitPub /\ batch_size = 1 /\ max_batch_wait = 1
  /\ cloud_config = [enabled |-> enabled, batch_size |-> 1,
                     max_batch_wait |-> 1]
  /\ cloud_publisher = IF cloud_config.enabled THEN "CloudPublisher"
                                               ELSE "None"
  /\ data_callback = IF cloud_config.enabled THEN "publish_callback"
                                             ELSE "None"
  /\ config_thresholds = DefaultThresholds
  /\ is_running = TRUE
  /\ collection_thread = 1
  /\ thread_pc = <<"check">>
  /\ InitCallers
  /\ InitFltIdle
  /\ InitSns

NextTick ==
  \/ \E t \in DOMAIN thread_pc :
       WorkerCheck(t) \/ WorkerTick(t) \/ WorkerWake(t)
  \/ AddSensor \/ RemoveSensor \/ UpdateDevice

SpecTick == InitTick /\ [][NextTick]_vars

\* The worker thread is scheduled and its sleep ends.
SpecTickLive == SpecTick /\ WF_vars(WorkerStep(1))

\* ========================================= SensorManager: single reads ====

\* read_sensor(sensor_id): the reading of read_with_metadata() for a sensor
\* of the dict (a sensor of the dict is active), None otherwise.
read_sensor(dict, sensor_id, outcome, counts) ==
  IF sensor_id \in Range(dict)
  THEN read_with_metadata(sensor_id, outcome, counts[sensor_id])
  ELSE NoReading

\* GET /api/readings/<sensor_id>: sensor_manager.read_sensor(sensor_id)
GetSensorReading ==
  /\ \E sensor_id \in SensorIds, outcome \in ReadOutcomes :
       /\ outcome = "error" =>
            /\ sensor_id \in Range(sensors)
            /\ MayFail(sensor_id, sensor_error_count[sensor_id])
       /\ sensor_error_count' =
            ErrorCountsAfter(SelectSeq(sensors, LAMBDA x : x = sensor_id),
                             <<outcome>>, sensor_error_count)
       /\ fail_streak' =
            StreaksAfter(SelectSeq(sensors, LAMBDA x : x = sensor_id),
                         <<outcome>>, fail_streak)
       /\ read_last' = [sensor_id |-> sensor_id, outcome |-> outcome,
                        found |-> sensor_id \in Range(sensors),
                        reading |-> read_sensor(sensors, sensor_id, outcome,
                                                sensor_error_count),
                        pre |-> sensor_error_count[sensor_id],
                        post |-> sensor_error_count'[sensor_id]]
  /\ UNCHANGED <<sensors, config_sensors, device, tick_last, cfg_last, iter>>
  /\ UNCHANGED <<pubvars, appvars, mgrvars, fltvars>>

\* Single reads beside the worker's ticks and the calls that change the
\* sensor set.
NextRead ==
  \/ \E t \in DOMAIN thread_pc :
       WorkerCheck(t) \/ WorkerTick(t) \/ WorkerWake(t)
  \/ AddSensor \/ RemoveSensor \/ GetSensorReading

SpecRead == InitTick /\ [][NextRead]_vars

\* ================== SensorManager: the tick beside add / remove_sensor ====

\* The worker's steps of one tick, with the calls of other threads between
\* them. The sensors dict is iterated as CPython iterates a dict.

IterUnchanged ==
  /\ UNCHANGED <<is_running, collection_thread, caller_pc, caller_op,
                 join_target, update_frequency, op_log, mgr_last>>
  /\ UNCHANGED <<sensors, config_sensors, device, cfg_last, read_last>>
  /\ UNCHANGED <<pubvars, appvars, fltvars>>

\* read_all_sensors: for sensor in self.sensors.values() begins
IterStart(t) ==
  /\ thread_pc[t] = "tick"
  /\ iter' = [NoIter EXCEPT !.active = TRUE, !.table = sensors,
                            !.size = Len(sensors)]
  /\ thread_pc' = [thread_pc EXCEPT ![t] = "iterate"]
  /\ UNCHANGED <<tick_last, sensor_error_count, fail_streak>>
  /\ IterUnchanged

\* Entries of the table the iterator has yet to visit.
EntriesAhead ==
  {i \in iter.pos..Len(iter.table) : iter.table[i] # Dummy}

\* The iterator raises RuntimeError: the dict has changed size, or it
\* finds an entry after it has handed out as many as it expected.
IterRaises ==
  \/ Len(sensors) # iter.size
  \/ EntriesAhead # {} /\ Len(iter.readings) >= iter.size

\* The next step of the for loop: the iterator raises (the except of the
\* collection loop ends the tick), is exhausted, or hands out a sensor.
IterNext(t) ==
  /\ thread_pc[t] = "iterate"
  /\ IF IterRaises
     THEN /\ iter' = NoIter
          /\ thread_pc' = [thread_pc EXCEPT ![t] = AfterTick("raised")]
     ELSE IF EntriesAhead = {}
     THEN /\ iter' = [iter EXCEPT !.active = FALSE]
          /\ thread_pc' = [thread_pc EXCEPT ![t] = "deliver"]
     ELSE LET i == CHOOSE k \in EntriesAhead :
                     \A j \in EntriesAhead : k <= j
          IN /\ iter' = [iter EXCEPT !.pos = i + 1,
                                     !.current = iter.table[i],
                                     !.closed = FALSE]
             /\ thread_pc' = [thread_pc EXCEPT ![t] = "read"]
  /\ UNCHANGED <<tick_last, sensor_error_count, fail_streak>>
  /\ IterUnchanged

\* The error_count of the sensor the iterator has handed out: of the sensor
\* in the dict, or, once remove_sensor has deleted that sensor, the count
\* the deleted sensor had.
CurrentCount ==
  IF iter.closed THEN iter.count ELSE sensor_error_count[iter.current]

\* read_all_sensors: reading = sensor.read_with_metadata();
\* readings.append(reading)
ReadCurrent(t) ==
  /\ thread_pc[t] = "read"
  /\ \E outcome \in ReadOutcomes :
       /\ outcome = "error" => MayFail(iter.current, CurrentCount)
       /\ iter' = [iter EXCEPT
                     !.readings = Append(@, read_with_metadata(iter.current,
                                              outcome, CurrentCount)),
                     !.outcomes = Append(@, outcome),
                     !.read_closed = @ \/ iter.closed,
                     !.current = "",
                     !.count = 0]
       /\ IF iter.closed
          THEN UNCHANGED <<sensor_error_count, fail_streak>>
          ELSE /\ sensor_error_count' =
                    ErrorCountsAfter(<<iter.current>>, <<outcome>>,
                                     sensor_error_count)
               /\ fail_streak' = StreaksAfter(<<iter.current>>, <<outcome>>,
                                              fail_streak)
  /\ thread_pc' = [thread_pc EXCEPT ![t] = "iterate"]
  /\ UNCHANGED tick_last
  /\ IterUnchanged

\* _collection_loop after read_all_sensors has returned: the metadata and
\* the callback
Deliver(t) ==
  /\ thread_pc[t] = "deliver"
  /\ LET readings == AddMetadata(iter.readings, device)
         calls == CallbackCalls(data_callback, readings)
     IN \E result \in CallbackResults(calls) :
          /\ tick_last' = [sensors |-> [i \in 1..Len(readings) |->
                                         readings[i].sensor_id],
                           outcomes |-> iter.outcomes, device |-> device,
                           calls |-> calls, result |-> result]
          /\ thread_pc' = [thread_pc EXCEPT ![t] = AfterTick(result)]
  /\ iter' = NoIter
  /\ UNCHANGED <<sensor_error_count, fail_streak>>
  /\ IterUnchanged

NextRace ==
  \/ \E t \in DOMAIN thread_pc :
       \/ WorkerCheck(t) \/ IterStart(t) \/ IterNext(t) \/ ReadCurrent(t)
       \/ Deliver(t) \/ WorkerWake(t)
  \/ AddSensor \/ RemoveSensor

SpecRace == InitTick /\ [][NextRace]_vars

\* ======================================= app.py: the shutdown handler ====

\* The worker's tick in two steps, the second being the callback's
\* publish(), beside the thread that runs shutdown_handler.

\* The readings of a tick as publish() gets them: an ok reading of a
\* sensor carries a temperature, an error reading carries no metric.
TickShapes ==
  {shapes \in [1..Len(sensors) -> ReadingShapes] :
     \A i \in 1..Len(sensors) :
       /\ shapes[i].sensor_id = sensors[i]
       /\ shapes[i].status = "error" =>
            MayFail(sensors[i], sensor_error_count[sensors[i]])}

\* _collection_loop: the sensors are read, the readings are stamped, and
\* the worker enters publish_callback -> cloud_publisher.publish()
CallbackBegin(t) ==
  /\ thread_pc[t] = "tick"
  /\ thread_pc' = [thread_pc EXCEPT
                     ![t] = IF data_callback # "None" /\ sensors # <<>>
                            THEN "publishing" ELSE AfterTick("none")]
  /\ WorkerUnchanged

\* cloud_publisher.publish(readings, thresholds) runs and returns. What
\* the reads of the tick were is drawn here, so their effect on the
\* sensors' error_count is taken here as well.
CallbackEnd(t) ==
  /\ thread_pc[t] = "publishing"
  /\ next_id + Len(sensors) <= MaxRecords
  /\ \E shapes \in TickShapes :
       LET outcomes == [i \in 1..Len(shapes) |-> shapes[i].status]
       IN /\ publish(shapes, CallbackThresholds(config_thresholds))
          /\ sensor_error_count' =
               ErrorCountsAfter(sensors, outcomes, sensor_error_count)
          /\ fail_streak' = StreaksAfter(sensors, outcomes, fail_streak)
  /\ thread_pc' = [thread_pc EXCEPT ![t] = AfterTick("returned")]
  /\ UNCHANGED <<is_running, collection_thread, caller_pc, caller_op,
                 join_target, update_frequency, op_log, mgr_last>>
  /\ UNCHANGED <<sensors, config_sensors, device, tick_last, cfg_last, iter,
                 read_last>>
  /\ UNCHANGED <<appvars, fltvars>>

\* SIGINT / SIGTERM: shutdown_handler calls sensor_manager.shutdown(),
\* which calls stop_collection()
CallShutdown(c) ==
  /\ caller_pc[c] = "idle"
  /\ caller_pc' = [caller_pc EXCEPT ![c] = "stop_check"]
  /\ caller_op' = [caller_op EXCEPT ![c] = "shutdown"]
  /\ op_log' = [op_log EXCEPT ![c] = NoLog]
  /\ mgr_last' = MgrStep("call", c)
  /\ UNCHANGED <<is_running, collection_thread, thread_pc, join_target,
                 update_frequency>>
  /\ MgrUnchangedPub

\* shutdown_handler: sensor_manager.shutdown() has returned;
\* if cloud_publisher: cloud_publisher.shutdown() is entered
ShutdownFlushBegin(c) ==
  /\ caller_pc[c] = "shutdown_flush"
  /\ caller_pc' = [caller_pc EXCEPT
                     ![c] = IF cloud_publisher # "None" THEN "flushing"
                                                       ELSE "flushed"]
  /\ mgr_last' = MgrStep("shutdown", c)
  /\ UNCHANGED <<is_running, collection_thread, thread_pc, caller_op,
                 join_target, update_frequency, op_log>>
  /\ MgrUnchangedPub

\* cloud_publisher.shutdown() runs its flush() and returns
ShutdownFlushEnd(c) ==
  /\ caller_pc[c] = "flushing"
  /\ IF enabled
     THEN flush("shutdown")
     ELSE UNCHANGED pubvars
  /\ caller_pc' = [caller_pc EXCEPT ![c] = "flushed"]
  /\ UNCHANGED <<is_running, collection_thread, thread_pc, caller_op,
                 join_target, update_frequency, op_log, mgr_last>>
  /\ UNCHANGED <<appvars, fltvars, snsvars>>

\* shutdown_handler: sys.exit(0); the daemon worker thread ends with the
\* process.
ProcessExit(c) ==
  /\ caller_pc[c] = "flushed"
  /\ caller_pc' = [caller_pc EXCEPT ![c] = "exit"]
  /\ thread_pc' = [t \in DOMAIN thread_pc |-> "exited"]
  /\ mgr_last' = MgrStep("exit", c)
  /\ UNCHANGED <<is_running, collection_thread, caller_op, join_target,
                 update_frequency, op_log>>
  /\ MgrUnchangedPub

\* The state after add_sensor('s1', 'BMP280', {}) and start_collection()
\* on a new installation with an enabled cloud configuration.
InitShutdown ==
  /\ InitPub /\ enabled /\ max_batch_wait = 1
  /\ InitCloud
  /\ is_running = TRUE
  /\ collection_thread = 1
  /\ thread_pc = <<"check">>
  /\ InitCallers
  /\ InitFltIdle
  /\ sensors = <<"s1">>
  /\ config_sensors = <<[id |-> "s1", type |-> "BMP280"]>>
  /\ device = DefaultDevice
  /\ tick_last = NoTick
  /\ cfg_last = NoCfg
  /\ iter = NoIter
  /\ InitErr

NextShutdown ==
  \/ \E t \in DOMAIN thread_pc :
       \/ WorkerCheck(t) \/ CallbackBegin(t) \/ CallbackEnd(t)
       \/ WorkerWake(t)
  \/ \E c \in {"c1"} :
       \/ CallShutdown(c) \/ StopCheck(c) \/ StopSet(c)
       \/ JoinDone(c) \/ JoinTimeout(c)
       \/ ShutdownFlushBegin(c) \/ ShutdownFlushEnd(c) \/ ProcessExit(c)

SpecShutdown == InitShutdown /\ [][NextShutdown]_vars

\* ======================================== should_publish as a function ====

FilterValues == 0..MaxFilterValue
FilterMaps == UNION {[S -> FilterValues] : S \in SUBSET Metrics}

\* A reading, a threshold map and the publisher's snapshots (none, or one
\* for the reading's sensor) are drawn; the publisher is otherwise new.
InitFilter ==
  /\ InitPub /\ enabled /\ batch_size = 1 /\ max_batch_wait = 1
  /\ InitCloud
  /\ InitMgr
  /\ InitSns
  /\ flt_reading \in [sensor_id : {"s1"}, status : {"ok"}, readings : FilterMaps]
  /\ flt_thresholds \in ThresholdMaps
  /\ flt_snapshots \in {EmptyMap} \cup
                       {[s \in {"s1"} |-> m] : m \in FilterMaps}
  /\ flt_result = "pending"

\* should_publish(reading, thresholds) on the drawn inputs
Evaluate ==
  /\ flt_result = "pending"
  /\ flt_result' = IF should_publish(flt_reading, flt_thresholds, flt_snapshots)
                   THEN "pass" ELSE "suppress"
  /\ UNCHANGED <<flt_reading, flt_thresholds, flt_snapshots>>
  /\ UNCHANGED <<pubvars, appvars, mgrvars, snsvars>>

NextFilter == Evaluate

SpecFilter == InitFilter /\ [][NextFilter]_vars

\* ============================= publish() with readings of any metric set ====

\* Readings whose metric maps differ in their metric sets: s1 reports any
\* subset of the metrics (any temperature, a steady pressure), s2 a steady
\* temperature.
SnapshotMaps ==
  {m \in UNION {[S -> Values] : S \in SUBSET Metrics} :
     "pressure" \in DOMAIN m => m["pressure"] = 0}
SnapshotShapes ==
  [sensor_id : {"s1"}, status : {"ok"}, readings : SnapshotMaps]
    \cup [sensor_id : {"s2"}, status : {"ok"}, readings : [{"temperature"} -> {0}]]

\* A new enabled publisher with the largest batch size.
InitSnapshot ==
  Init /\ enabled /\ batch_size = MaxBatchSize /\ max_batch_wait = MaxWait

\* publish([reading], thresholds)
PublishReading ==
  /\ next_id < MaxRecords
  /\ \E shape \in SnapshotShapes, thresholds \in PublishThresholds :
       publish(<<shape>>, thresholds)
  /\ UNCHANGED <<appvars, mgrvars, fltvars, snsvars>>

NextSnapshot == PublishReading

SpecSnapshot == InitSnapshot /\ [][NextSnapshot]_vars

\* ============================================================== drift ====

\* Largest temperature of a drifting sensor.
MaxDrift == 2

\* Sensor s1 reports any temperature up to MaxDrift.
DriftShapes ==
  [sensor_id : {"s1"}, status : {"ok"},
   readings : [{"temperature"} -> 0..MaxDrift]]
\* The threshold map of the drift runs: the largest temperature threshold.
DriftThresholds == [m \in {"temperature"} |-> MaxThreshold]

\* publish(readings, thresholds) with the readings of a drifting sensor.
PublishDrift ==
  /\ \E n \in 1..Min(MaxReadings, MaxRecords - next_id) :
     \E shapes \in [1..n -> DriftShapes] : publish(shapes, DriftThresholds)
  /\ UNCHANGED <<appvars, mgrvars, fltvars, snsvars>>

NextDrift == PublishDrift \/ AdvanceTime

\* A new enabled publisher, fed by one drifting sensor.
InitDrift == Init /\ enabled

SpecDrift == InitDrift /\ [][NextDrift]_vars

\* ================================================================ app ====

\* Cloud configurations: config['cloud'] as CloudPublisher.__init__ reads it.
CloudConfigs == [enabled : BOOLEAN, batch_size : 1..MaxBatchSize,
                 max_batch_wait : 1..MaxWait]

\* CloudPublisher(config): all fields start anew; the offline buffer starts
\* empty and the file is not read. _initialize_publisher may fail, which
\* leaves the publisher disabled.
Construct(config) ==
  /\ \E initialized \in BOOLEAN : enabled' = (config.enabled /\ initialized)
  /\ batch_size' = config.batch_size
  /\ max_batch_wait' = config.max_batch_wait
  /\ message_queue' = <<>>
  /\ last_published_values' = EmptyMap
  /\ publish_count' = 0
  /\ error_count' = 0
  /\ last_batch_time' = now
  /\ offline_buffer' = <<>>
  /\ sent' = <<>>
  /\ enq_log' = <<>>
  /\ enq_last' = EmptyMap
  /\ trig_log' = <<>>
  /\ UNCHANGED <<offline_buffer_file, now, next_id>>

\* initialize_cloud_publisher(): a new publisher only if the configuration
\* is enabled; otherwise the global and the callback stay as they are.
initialize_cloud_publisher(config) ==
  IF config.enabled
  THEN /\ cloud_publisher' = "CloudPublisher"
       /\ Construct(config)
       /\ data_callback' = "publish_callback"
  ELSE UNCHANGED <<cloud_publisher, data_callback, enabled, batch_size, max_batch_wait,
                   message_queue, last_published_values, publish_count,
                   error_count, last_batch_time, offline_buffer,
                   offline_buffer_file, now, next_id, sent, enq_log,
                   enq_last, trig_log>>

\* PUT /api/config with a 'cloud' entry: sensor_manager.update_config, then
\* initialize_cloud_publisher().
UpdateCloudConfig ==
  \E config \in CloudConfigs :
    /\ cloud_config' = config
    /\ initialize_cloud_publisher(config)
    /\ last' = CallInfo("update_config", <<>>, {})
    /\ UNCHANGED <<config_thresholds, mgrvars, fltvars, snsvars>>

\* The process ends and is started again: the module globals are set anew
\* (cloud_publisher = None), config.json and offline_buffer.json are kept,
\* and main() calls initialize_cloud_publisher().
Restart ==
  /\ cloud_publisher' = IF cloud_config.enabled THEN "CloudPublisher"
                                                ELSE "None"
  /\ data_callback' = IF cloud_config.enabled THEN "publish_callback"
                                              ELSE "None"
  /\ Construct(cloud_config)
  /\ last' = CallInfo("restart", <<>>, {})
  /\ UNCHANGED <<cloud_config, config_thresholds, mgrvars, fltvars, snsvars>>

\* publish_callback(readings): if cloud_publisher: cloud_publisher.publish(
\* readings, thresholds), with the thresholds read from the configuration.
PublishCallback ==
  /\ cloud_publisher = "CloudPublisher"
  /\ \E n \in 1..Min(MaxReadings, MaxRecords - next_id) :
     \E shapes \in [1..n -> ReadingShapes] :
       publish(shapes, CallbackThresholds(config_thresholds))
  /\ UNCHANGED <<appvars, mgrvars, fltvars, snsvars>>

\* dict.update(other): the entries of other replace or extend those of d.
DictUpdate(d, other) ==
  [k \in (DOMAIN d) \cup (DOMAIN other) |->
     IF k \in DOMAIN other THEN other[k] ELSE d[k]]

\* PUT /api/config/thresholds: config['thresholds'].update(thresholds)
UpdateThresholds ==
  /\ \E update \in {[m \in {"temperature"} |-> t] : t \in 0..MaxThreshold} :
       config_thresholds' = DictUpdate(config_thresholds, update)
  /\ last' = CallInfo("update_thresholds", <<>>, {})
  /\ UNCHANGED <<enabled, batch_size, max_batch_wait, message_queue,
                 last_published_values, publish_count, error_count,
                 last_batch_time, offline_buffer, offline_buffer_file, now,
                 next_id, sent, enq_log, enq_last, trig_log>>
  /\ UNCHANGED <<cloud_config, cloud_publisher, data_callback, mgrvars,
                 fltvars, snsvars>>

\* The state main() leaves: a publisher if the loaded configuration is
\* enabled, none otherwise.
InitApp ==
  /\ InitPub /\ InitMgr /\ InitFltIdle /\ InitSns
  /\ cloud_config \in CloudConfigs
  /\ batch_size = cloud_config.batch_size
  /\ max_batch_wait = cloud_config.max_batch_wait
  /\ enabled => cloud_config.enabled
  /\ cloud_publisher = IF cloud_config.enabled THEN "CloudPublisher"
                                               ELSE "None"
  /\ config_thresholds = DefaultThresholds
  /\ data_callback = IF cloud_config.enabled THEN "publish_callback"
                                             ELSE "None"

NextApp ==
  PublishCallback \/ UpdateCloudConfig \/ UpdateThresholds \/ Restart

SpecApp == InitApp /\ [][NextApp]_vars

\* ==================================================== claims: SpecMgr ====

\* C1: at most one collection worker thread is live per SensorManager.
C1_AtMostOneWorker == Cardinality(LiveWorkers) <= 1

\* The manager's fields are as the last caller step found them.
MgrFrame ==
  /\ is_running = mgr_last.pre.is_running
  /\ collection_thread = mgr_last.pre.collection_thread
  /\ Len(thread_pc) = mgr_last.pre.threads
  /\ update_frequency = mgr_last.pre.update_frequency
  /\ publish_count = mgr_last.pre.publish_count
  /\ error_count = mgr_last.pre.error_count

\* C17: start_collection() that finds the loop running returns at once: no
\* thread is created and the running flag, the worker reference and the
\* configuration are as before.
C17_StartIdempotent ==
  (mgr_last.step = "start_running") =>
    /\ mgr_last.pre.is_running
    /\ MgrFrame
    /\ caller_pc[mgr_last.caller] \in {"idle"}
    /\ mgr_last.caller \notin PendingStarts

\* C17 witness: a start_collection() returned while one worker was live.
C17_Witness ==
  /\ mgr_last.step = "start_running"
  /\ is_running
  /\ Cardinality(LiveWorkers) = 1
  /\ Len(thread_pc) = 1
  /\ \A c \in Callers : caller_pc[c] = "idle"

\* C18: stop_collection() that finds the manager idle returns at once: it
\* joins no thread and the running flag, the worker reference, the
\* configuration and the publisher's counters are as before.
C18_StopIdleNoOp ==
  (mgr_last.step = "stop_idle") =>
    /\ ~mgr_last.pre.is_running
    /\ MgrFrame
    /\ caller_pc[mgr_last.caller] \in {"idle", "start_check"}
    /\ caller_pc[mgr_last.caller] = "idle" <=> caller_op[mgr_last.caller] = "none"
    /\ join_target[mgr_last.caller] = 0

\* C18 witness: a stop_collection() returned on a manager whose loop had
\* been stopped before; the old thread object is still referenced.
C18_Witness ==
  /\ mgr_last.step = "stop_idle"
  /\ ~is_running
  /\ collection_thread # 0
  /\ \A c \in Callers : caller_pc[c] = "idle" /\ join_target[c] = 0

\* The calls update_config makes for an update.
ExpectedCalls(log) ==
  IF log.frequency /\ log.running THEN <<"stop", "start">> ELSE <<>>

\* C19: update_config() with an update_frequency entry on a running loop
\* calls stop_collection() once and then start_collection() once; on an
\* idle loop, or without update_frequency, it calls neither and the loop is
\* left as it was.
C19_UpdateRestartsOnce ==
  /\ \A c \in Callers :
       (op_log[c].op = "update") =>
         /\ op_log[c].done => op_log[c].calls = ExpectedCalls(op_log[c])
         /\ ~op_log[c].done =>
              /\ ExpectedCalls(op_log[c]) # <<>>
              /\ op_log[c].calls \in {<<"stop">>, <<"stop", "start">>}
              /\ caller_op[c] = "update"
  /\ (mgr_last.step \in {"update_idle", "update_plain"}) =>
       /\ is_running = mgr_last.pre.is_running
       /\ collection_thread = mgr_last.pre.collection_thread
       /\ Len(thread_pc) = mgr_last.pre.threads
       /\ caller_pc[mgr_last.caller] = "idle"
       /\ op_log[mgr_last.caller].calls = <<>>
  /\ (mgr_last.step = "update_idle") => ~is_running
  /\ (mgr_last.step = "update_running") =>
       /\ caller_pc[mgr_last.caller] = "stop_check"
       /\ op_log[mgr_last.caller].calls = <<"stop">>

\* C19 witness: an update_config() with a new update_frequency on a running
\* loop has returned after one stop and one start.
C19_Witness ==
  \E c \in Callers :
    /\ op_log[c] = [op |-> "update", frequency |-> TRUE, running |-> TRUE,
                    calls |-> <<"stop", "start">>, done |-> TRUE]
    /\ caller_pc[c] = "idle"
    /\ update_frequency = "other"
    /\ is_running

\* C20: once the running flag stays cleared every worker exits, and a
\* worker that tests the cleared flag returns and never begins a tick again.
C20_WorkerExits ==
  /\ (<>[](~is_running)) => <>[](LiveWorkers = {})
  /\ [][\A t \in DOMAIN thread_pc :
          /\ (thread_pc[t] = "check" /\ ~is_running
              /\ thread_pc'[t] # thread_pc[t]) => thread_pc'[t] = "exited"
          /\ thread_pc[t] = "exited" => thread_pc'[t] = "exited"
          /\ (thread_pc'[t] = "tick" /\ thread_pc[t] # "tick")
               => (thread_pc[t] = "check" /\ is_running)]_vars

\* C20 witness: stop_collection() gave up its join while the worker slept,
\* and the worker has since exited.
C20_Witness ==
  /\ ~is_running
  /\ Len(thread_pc) = 1
  /\ thread_pc[1] = "exited"
  /\ mgr_last.step = "stop"
  /\ mgr_last.pre.threads = 1
  /\ \A c \in Callers : caller_pc[c] = "idle"

\* ================================================= claims: SpecFilter ====

Threshold(metric) == DictGet(flt_thresholds, metric, 0)

\* C6: with a snapshot for the sensor, should_publish passes exactly when a
\* metric present in both the new map and the snapshot differs by strictly
\* more than its threshold (0 when unconfigured).
C6_FilterContract ==
  (flt_result \in {"pass", "suppress"} /\ "s1" \in DOMAIN flt_snapshots) =>
    LET new == flt_reading.readings
        snap == flt_snapshots["s1"]
        both == (DOMAIN new) \cap (DOMAIN snap)
    IN /\ (flt_result = "pass")
            = (\E m \in both : Abs(new[m] - snap[m]) > Threshold(m))
       /\ (\A m \in both : Abs(new[m] - snap[m]) = Threshold(m))
            => flt_result = "suppress"
       /\ both = {} => flt_result = "suppress"

\* C6 witness: temperature moved by exactly its threshold and pressure is
\* new in the reading; the reading is suppressed.
C6_Witness ==
  /\ flt_result = "suppress"
  /\ flt_snapshots = [s \in {"s1"} |-> [m \in {"temperature"} |-> 0]]
  /\ flt_reading.readings = [temperature |-> 1, pressure |-> 2]
  /\ flt_thresholds = [m \in {"temperature"} |-> 1]

\* ======================================================= claims: Spec ====

\* The last operation made a flush attempt in which a transport call failed
Failed(l) == \E i \in 1..Len(l.outcome) : l.outcome[i] # "ok"
\* ... in which every transport call failed
AllFail(l) ==
  Len(l.outcome) >= 1 /\ \A i \in 1..Len(l.outcome) : l.outcome[i] # "ok"
DeliveredOf(l) ==
  {l.batch[i] : i \in {j \in 1..Len(l.outcome) : l.outcome[j] = "ok"}}
UndeliveredOf(l) == Range(l.batch) \ DeliveredOf(l)
\* What the last operation appended to the offline buffer
Appended == SubSeq(offline_buffer, Len(last.pre.offline_buffer) + 1,
                   Len(offline_buffer))
BufferPrefixKept ==
  /\ Len(offline_buffer) >= Len(last.pre.offline_buffer)
  /\ SubSeq(offline_buffer, 1, Len(last.pre.offline_buffer))
       = last.pre.offline_buffer
NoDup(s) == \A i, j \in 1..Len(s) : s[i] = s[j] => i = j

\* C2: when a flush attempt fails, the messages appended to the offline
\* buffer are exactly the messages of the attempt that the transport did not
\* deliver, and error_count grows by exactly one.
C2_OnlyUndeliveredBuffered ==
  (last.attempt /\ Failed(last)) =>
    /\ error_count = last.pre.error_count + 1
    /\ BufferPrefixKept
    /\ Range(Appended) = UndeliveredOf(last)
    /\ NoDup(Appended)

\* C3: after flush() or shutdown() returns the publish queue is empty and
\* every record that was queued at the call was handed to the transport or
\* moved to the offline buffer.
C3_FlushDrainsQueue ==
  (last.op \in {"flush", "shutdown"}) =>
    /\ message_queue = <<>>
    /\ \A i \in 1..Len(last.pre.message_queue) :
         \/ last.pre.message_queue[i].id \in Range(sent)
         \/ Encode(last.pre.message_queue[i]) \in Range(offline_buffer)

\* C4 as stated: from the empty queue of a new publisher, with a transport
\* that has not failed and no explicit flush, once exactly batch_size records
\* were accepted there was exactly one flush, batch_size transport calls and
\* publish_count = batch_size, however the records were divided over calls.
C4_ExactlyOneFlush_AnyTiming ==
  (/\ Len(enq_log) = batch_size
   /\ error_count = 0
   /\ "explicit" \notin Range(trig_log))
  => (/\ Len(trig_log) = 1
      /\ Len(sent) = batch_size
      /\ publish_count = batch_size)

\* C4 amended: the same, provided no publish() call flushed a short batch
\* because max_batch_wait had elapsed since last_batch_time.
C4_ExactlyOneFlush ==
  (/\ Len(enq_log) = batch_size
   /\ error_count = 0
   /\ "explicit" \notin Range(trig_log)
   /\ "time" \notin Range(trig_log))
  => (/\ trig_log = <<"size">>
      /\ Len(sent) = batch_size
      /\ publish_count = batch_size
      /\ message_queue = <<>>)

\* C4 witness: batch_size = 2 records accepted over two publish() calls and
\* flushed once by size.
C4_Witness ==
  /\ batch_size = 2
  /\ Len(enq_log) = 2
  /\ trig_log = <<"size">>
  /\ last.op = "publish" /\ Len(last.input) = 1 /\ last.attempt
  /\ publish_count = 2

\* C5: when every transport call of a flush attempt fails, all messages of
\* the attempt are appended to the offline buffer, publish_count is
\* unchanged and error_count grows by exactly one.
C5_AllFailBuffered ==
  (last.attempt /\ AllFail(last)) =>
    /\ publish_count = last.pre.publish_count
    /\ error_count = last.pre.error_count + 1
    /\ BufferPrefixKept
    /\ Len(Appended) = Len(last.batch)
    /\ Range(Appended) = Range(last.batch)

\* C5 witness: a flush attempt of two messages, both of which failed.
C5_Witness ==
  /\ last.attempt
  /\ Len(last.batch) = 2
  /\ last.outcome = <<"fail", "fail">>
  /\ error_count = 1

\* input[i] is the first ok reading of its sensor in the call.
FirstOkInCall(input, i) ==
  /\ input[i].status = "ok"
  /\ \A j \in 1..(i - 1) :
       ~(input[j].sensor_id = input[i].sensor_id /\ input[j].status = "ok")

\* C7: the first ok reading that an enabled publisher's publish() sees for a
\* sensor without a last-accepted snapshot is accepted and enqueued, whatever
\* the thresholds and the metric map.
C7_ColdStartAccepted ==
  (last.op = "publish" /\ enabled) =>
    \A i \in 1..Len(last.input) :
      (/\ FirstOkInCall(last.input, i)
       /\ last.input[i].sensor_id \notin DOMAIN last.pre.last_published_values)
      => /\ last.input[i].id \in Range(enq_log)
         /\ last.input[i].id \notin Range(last.pre.enq_log)
         /\ \/ last.input[i] \in Range(message_queue)
            \/ Encode(last.input[i]) \in Range(last.batch)

\* C7 witness: the second sensor's first ok reading arrives, with a
\* configured threshold, after the first sensor already has a snapshot.
C7_Witness ==
  /\ enabled
  /\ last.op = "publish"
  /\ Len(last.input) = 1
  /\ last.input[1].status = "ok"
  /\ last.input[1].sensor_id = "s2"
  /\ DOMAIN last.pre.last_published_values = {"s1"}
  /\ Len(enq_log) = 2
  /\ enq_log[2] = last.input[1].id

\* C8: an error reading handed to publish() is not evaluated by the filter,
\* is not enqueued or sent, and (when the call holds no ok reading of the
\* same sensor) leaves the sensor's snapshot as it was, absent or present.
C8_ErrorReadingsDropped ==
  (last.op = "publish") =>
    \A i \in 1..Len(last.input) :
      LET r == last.input[i]
          before == last.pre.last_published_values
      IN r.status = "error" =>
           /\ r.id \notin last.evaluated
           /\ r.id \notin Range(enq_log)
           /\ r.id \notin Range(sent)
           /\ r \notin Range(message_queue)
           /\ Encode(r) \notin Range(offline_buffer)
           /\ (\A j \in 1..Len(last.input) :
                 last.input[j].sensor_id = r.sensor_id
                   => last.input[j].status = "error")
              => /\ (r.sensor_id \in DOMAIN last_published_values)
                      = (r.sensor_id \in DOMAIN before)
                 /\ r.sensor_id \in DOMAIN before
                      => last_published_values[r.sensor_id]
                           = before[r.sensor_id]

\* C8 witness: an enabled publisher got an error reading of a sensor without
\* snapshot together with an accepted ok reading of the other sensor.
C8_Witness ==
  /\ enabled
  /\ last.op = "publish"
  /\ Len(last.input) = 2
  /\ last.input[1].status = "error"
  /\ last.input[2].status = "ok"
  /\ last.input[1].sensor_id # last.input[2].sensor_id
  /\ last.input[2].id \in Range(enq_log)
  /\ last.input[1].sensor_id \notin DOMAIN last_published_values

\* Position of a record in the order of enqueueing.
EnqPos(id) == CHOOSE k \in 1..Len(enq_log) : enq_log[k] = id
SentInEnqueueOrder ==
  /\ Range(sent) \subseteq Range(enq_log)
  /\ \A i, j \in 1..Len(sent) : i < j => EnqPos(sent[i]) < EnqPos(sent[j])

\* The records the last operation enqueued, in order.
NewlyEnqueued == SubSeq(enq_log, Len(last.pre.enq_log) + 1, Len(enq_log))

\* C9: a flush takes the oldest min(batch_size, queue length) records from
\* the head of the queue and hands them to the transport in the order of
\* enqueueing (all of them unless a transport call raises), and over all
\* flushes the transport calls are in the order of enqueueing.
C9_FifoOrder ==
  /\ last.attempt =>
       LET qids == Ids(last.pre.message_queue) \o NewlyEnqueued
           n == Min(batch_size, Len(qids))
       IN /\ Ids([i \in 1..Len(last.batch) |-> last.batch[i].bytes])
               = SubSeq(qids, 1, n)
          /\ Ids(message_queue) = SubSeq(qids, n + 1, Len(qids))
          /\ sent = last.pre.sent \o SubSeq(qids, 1, Len(last.outcome))
          /\ ("raise" \notin Range(last.outcome)) => Len(last.outcome) = n
  /\ SentInEnqueueOrder

\* C9 witness: two flushes have handed three records to the transport, the
\* second flush taking two records.
C9_Witness ==
  /\ Len(trig_log) = 2
  /\ Len(sent) = 3
  /\ last.attempt
  /\ Len(last.batch) = 2

C11_FlushOnlyOnEnqueue ==
  /\ last.attempt =>
       \/ last.op \in {"flush", "shutdown"}
       \/ /\ last.op = "publish"
          /\ NewlyEnqueued # <<>>
          /\ \/ Len(last.pre.message_queue) + Len(NewlyEnqueued) >= batch_size
             \/ now - last.pre.last_batch_time >= max_batch_wait
  /\ (\/ last.op = "time"
      \/ last.op = "publish" /\ NewlyEnqueued = <<>>)
     => /\ ~last.attempt
        /\ message_queue = last.pre.message_queue
        /\ sent = last.pre.sent
        /\ publish_count = last.pre.publish_count
        /\ error_count = last.pre.error_count
        /\ offline_buffer = last.pre.offline_buffer

\* C11 witness: a record has been waiting in the queue for max_batch_wait
\* and a publish() call whose only reading was evaluated and suppressed
\* returned without a flush.
C11_Witness ==
  /\ enabled
  /\ last.op = "publish"
  /\ Len(last.input) = 1
  /\ last.input[1].id \in last.evaluated
  /\ NewlyEnqueued = <<>>
  /\ message_queue # <<>>
  /\ now - last_batch_time >= max_batch_wait
  /\ trig_log = <<>>

\* C12: when every message of a flush attempt is delivered, publish_count
\* grows by the number of messages of the batch, last_batch_time becomes the
\* current time, and error_count and the offline buffer are unchanged.
C12_SuccessCounts ==
  (last.attempt /\ ~Failed(last)) =>
    /\ Len(last.outcome) = Len(last.batch)
    /\ publish_count = last.pre.publish_count + Len(last.batch)
    /\ last_batch_time = now
    /\ error_count = last.pre.error_count
    /\ offline_buffer = last.pre.offline_buffer

\* C12 witness: after an earlier failed flush, a batch of two messages was
\* delivered at a time later than the previous last_batch_time.
C12_Witness ==
  /\ last.attempt
  /\ last.outcome = <<"ok", "ok">>
  /\ last.pre.error_count = 1
  /\ Len(offline_buffer) = 1
  /\ last.pre.last_batch_time < now
  /\ publish_count = 2

\* C14: the offline buffer is append-only for publish(), flush() and
\* shutdown(): each operation leaves the buffer it found as a prefix of the
\* buffer it leaves, so the length never decreases and no entry is removed,
\* reordered or changed.
C14_BufferAppendOnly ==
  (last.op \in {"publish", "flush", "shutdown", "time"}) =>
    /\ BufferPrefixKept
    /\ ~last.attempt => offline_buffer = last.pre.offline_buffer

\* C14 witness: a second failed flush appended to a buffer that already
\* held the message of an earlier failed flush.
C14_Witness ==
  /\ last.attempt
  /\ Failed(last)
  /\ Len(last.pre.offline_buffer) >= 1
  /\ Len(offline_buffer) > Len(last.pre.offline_buffer)
  /\ error_count = 2

\* C29: after every operation of a publisher, publish_count plus the
\* length of the offline buffer plus the length of the queue equals the
\* number of readings the filter has accepted so far.
C29_Conservation ==
  publish_count + Len(offline_buffer) + Len(message_queue) = Len(enq_log)

\* C29 witness: of three accepted records one was delivered, one is in the
\* offline buffer after a failed flush, and one is still queued.
C29_Witness ==
  /\ Len(enq_log) = 3
  /\ publish_count = 1
  /\ Len(offline_buffer) = 1
  /\ Len(message_queue) = 1
  /\ last.attempt

\* C30: the offline buffer is ordered by enqueue time: the messages of a
\* failed flush attempt are appended oldest first.
C30_BufferInEnqueueOrder ==
  \A i, j \in 1..Len(offline_buffer) :
    i < j => EnqPos(offline_buffer[i].bytes.id)
               < EnqPos(offline_buffer[j].bytes.id)

\* =============================================== claims: SpecSnapshot ====

\* The accepted readings of sensor s in the last publish() call.
AcceptedOf(s) ==
  {i \in 1..Len(last.input) :
     last.input[i].sensor_id = s /\ last.input[i].id \in Range(NewlyEnqueued)}

\* C13: after a publish() call, the snapshot of a sensor with an accepted
\* reading is exactly the metric map of its (last) accepted reading, metrics
\* of the old snapshot that the reading lacks being dropped, and the
\* snapshot of every other sensor is as before, absent or present.
C13_SnapshotReplaced ==
  (last.op = "publish") =>
    \A s \in SensorIds :
      IF AcceptedOf(s) # {}
      THEN LET i == CHOOSE k \in AcceptedOf(s) : \A j \in AcceptedOf(s) : j <= k
           IN /\ s \in DOMAIN last_published_values
              /\ last_published_values[s] = last.input[i].readings
              /\ DOMAIN last_published_values[s] = DOMAIN last.input[i].readings
      ELSE /\ (s \in DOMAIN last_published_values)
                = (s \in DOMAIN last.pre.last_published_values)
           /\ s \in DOMAIN last.pre.last_published_values
                => last_published_values[s]
                     = last.pre.last_published_values[s]

\* C13 witness: s1's snapshot held temperature and pressure, a reading of
\* s1 with temperature only was accepted, and s2 has a snapshot.
C13_Witness ==
  /\ last.op = "publish"
  /\ DOMAIN last.pre.last_published_values = {"s1", "s2"}
  /\ DOMAIN last.pre.last_published_values["s1"] = {"temperature", "pressure"}
  /\ Len(last.input) = 1
  /\ last.input[1].sensor_id = "s1"
  /\ DOMAIN last.input[1].readings = {"temperature"}
  /\ AcceptedOf("s1") = {1}
  /\ DOMAIN last_published_values["s1"] = {"temperature"}

\* ===================================================== claims: SpecApp ====

\* C15: when the process is started again and offline_buffer.json exists,
\* the new publisher's offline buffer starts with the entries the previous
\* process had in its buffer at its last save.
C15_BufferDurable ==
  (/\ last.op = "restart"
   /\ cloud_publisher = "CloudPublisher"
   /\ offline_buffer_file.exists)
  => offline_buffer = last.pre.offline_buffer

\* C16: after a configuration update with a cloud entry the publisher used
\* by the callback is a new one for the new configuration: empty queue, no
\* snapshots, zeroed counters, the configured batch parameters, and
\* disabled if the configuration is.
C16_ReinitOnConfigChange ==
  (last.op = "update_config" /\ cloud_publisher = "CloudPublisher") =>
    /\ message_queue = <<>>
    /\ last_published_values = EmptyMap
    /\ publish_count = 0
    /\ error_count = 0
    /\ batch_size = cloud_config.batch_size
    /\ max_batch_wait = cloud_config.max_batch_wait
    /\ enabled => cloud_config.enabled

\* C28: the callback hands the configured thresholds of the moment to the
\* filter: the first reading of a publish() call, of a sensor with a
\* snapshot, is accepted exactly when a metric moved by more than its
\* currently configured threshold; and a threshold update changes no
\* snapshot and does not touch the publisher.
C28_ThresholdsLive ==
  /\ (/\ last.op = "publish"
      /\ enabled
      /\ last.input[1].status = "ok"
      /\ last.input[1].sensor_id \in DOMAIN last.pre.last_published_values)
     => LET new == last.input[1].readings
            snap == last.pre.last_published_values[last.input[1].sensor_id]
        IN (last.input[1].id \in Range(NewlyEnqueued))
             = (\E m \in (DOMAIN new) \cap (DOMAIN snap) :
                  Abs(new[m] - snap[m]) > DictGet(config_thresholds, m, 0))
  /\ (last.op = "update_thresholds") =>
       /\ last_published_values = last.pre.last_published_values
       /\ message_queue = last.pre.message_queue
       /\ publish_count = last.pre.publish_count
       /\ error_count = last.pre.error_count
       /\ offline_buffer = last.pre.offline_buffer

\* C28 witness: the temperature threshold was lowered from its default, and
\* the next publish() accepted a reading that moved by no more than the
\* default threshold.
C28_Witness ==
  /\ config_thresholds # DefaultThresholds
  /\ last.op = "publish"
  /\ enabled
  /\ last.input[1].status = "ok"
  /\ last.input[1].sensor_id \in DOMAIN last.pre.last_published_values
  /\ last.input[1].id \in Range(NewlyEnqueued)
  /\ Abs(last.input[1].readings["temperature"]
         - last.pre.last_published_values[last.input[1].sensor_id]["temperature"])
       <= DefaultThresholds["temperature"]

\* ================================================= claims: SpecSensors ====

\* The arguments of the last add_sensor / remove_sensor call make it fail.
CfgFails ==
  \/ /\ cfg_last.op = "add"
     /\ \/ cfg_last.sensor_id \in Range(cfg_last.pre.sensors)
        \/ cfg_last.sensor_type \notin SENSOR_TYPES
        \/ ~cfg_last.initialized
  \/ /\ cfg_last.op = "remove"
     /\ cfg_last.sensor_id \notin Range(cfg_last.pre.sensors)

\* C26: an add_sensor with an existing id, an unknown type or a failing
\* initialize(), and a remove_sensor with an unknown id, return False and
\* leave the sensor set and config['sensors'] as they were; every call
\* returns a boolean.
C26_ConfigErrorsReturned ==
  /\ cfg_last.op \in {"add", "remove"} => cfg_last.result \in BOOLEAN
  /\ CfgFails => /\ cfg_last.result = FALSE
                 /\ sensors = cfg_last.pre.sensors
                 /\ config_sensors = cfg_last.pre.config_sensors

\* C26 witness: with one sensor present, an add_sensor for a new id of a
\* registered type whose initialize() failed has returned.
C26_Witness ==
  /\ cfg_last.op = "add"
  /\ cfg_last.pre.sensors # <<>>
  /\ cfg_last.sensor_id \notin Range(cfg_last.pre.sensors)
  /\ cfg_last.sensor_type \in SENSOR_TYPES
  /\ ~cfg_last.initialized
  /\ cfg_last.result = FALSE

\* Descriptors of config['sensors'] with the given id.
DescriptorsOf(sensor_id) ==
  {i \in 1..Len(config_sensors) : config_sensors[i].id = sensor_id}

\* C27: config['sensors'] holds exactly one descriptor for every sensor of
\* the sensor set and none for any other id.
C27_OneDescriptorPerSensor ==
  \A sensor_id \in SensorIds :
    Cardinality(DescriptorsOf(sensor_id))
      = IF sensor_id \in Range(sensors) THEN 1 ELSE 0

\* ==================================================== claims: SpecTick ====

\* The batch the last tick handed to the callback holds one reading for
\* each sensor the tick found, in the order of the sensor set, with the
\* status its read() gave.
BatchCoversSensors ==
  LET batch == tick_last.calls[1]
  IN /\ Len(batch) = Len(tick_last.sensors)
     /\ \A i \in 1..Len(batch) :
          /\ batch[i].sensor_id = tick_last.sensors[i]
          /\ batch[i].status
               = IF tick_last.outcomes[i] = "ok" THEN "ok" ELSE "error"

\* C21: a tick in which a read() failed still read every sensor: with a
\* callback registered its batch was delivered, holding an error reading
\* for the failing sensor and a reading for every other sensor; and the
\* worker has not left its loop while the running flag is set.
C21_ReadFailureBecomesReading ==
  (\E i \in 1..Len(tick_last.sensors) : tick_last.outcomes[i] = "error")
  => /\ data_callback # "None" => (Len(tick_last.calls) = 1
                                   /\ BatchCoversSensors)
     /\ is_running => thread_pc[1] \in Live

\* C21 witness: the first of two sensors failed to read, the second was
\* read, the batch went to the callback, and the next tick has begun.
C21_Witness ==
  /\ Len(tick_last.sensors) = 2
  /\ tick_last.outcomes = <<"error", "ok">>
  /\ Len(tick_last.calls) = 1
  /\ tick_last.calls[1][1].status = "error"
  /\ tick_last.calls[1][2].status = "ok"
  /\ thread_pc[1] = "tick"

\* C22: a tick always reaches the sleep of the loop, whether the callback
\* returned, returned after a transport failure, or raised; and from the
\* sleep the worker begins another tick unless the running flag is cleared.
C22_WorkerSurvives ==
  /\ [](thread_pc[1] = "tick" => <>(thread_pc[1] = "sleep"))
  /\ [](thread_pc[1] = "sleep" => <>(~is_running \/ thread_pc[1] = "tick"))

\* C22 witness: the callback raised in the last tick, the running flag is
\* set, and the worker is in its next tick.
C22_Witness ==
  /\ tick_last.result = "raised"
  /\ is_running
  /\ thread_pc[1] = "tick"

\* C23: a tick calls the callback at most once, and exactly once when a
\* callback is registered and there is a sensor; the batch holds exactly
\* one reading for every sensor of the tick, each with the device_id,
\* customer_id and location of the configuration of that tick.
C23_OneBatchPerTick ==
  /\ Len(tick_last.calls) <= 1
  /\ (data_callback # "None" /\ tick_last.sensors # <<>>)
       => Len(tick_last.calls) = 1
  /\ Len(tick_last.calls) = 1 =>
       /\ BatchCoversSensors
       /\ \A i \in 1..Len(tick_last.calls[1]) :
            LET reading == tick_last.calls[1][i]
            IN /\ reading.device_id = tick_last.device.device_id
               /\ reading.customer_id = tick_last.device.customer_id
               /\ reading.location = tick_last.device.location

\* C23 witness: after the device entries were changed, a tick with two
\* sensors handed one batch of two readings to the callback.
C23_Witness ==
  /\ tick_last.device # DefaultDevice
  /\ Len(tick_last.calls) = 1
  /\ Len(tick_last.calls[1]) = 2
  /\ tick_last.calls[1][1].sensor_id # tick_last.calls[1][2].sensor_id

\* ==================================================== claims: SpecRace ====

\* C24: while the worker iterates the sensor set no add_sensor or
\* remove_sensor has changed it (the entry table is the sensor set and has
\* the size the iterator began with), and the worker has read no sensor
\* that remove_sensor had closed.
C24_MutationsSerialized ==
  /\ iter.active => (iter.table = sensors /\ Len(sensors) = iter.size)
  /\ ~iter.read_closed

\* ================================================ claims: SpecShutdown ====

\* C25: the flush of the shutdown path never runs while the worker is
\* inside publish(), and once that flush has run the worker enqueues no
\* record.
C25_PublisherSingleThreaded ==
  /\ \A c \in Callers, t \in DOMAIN thread_pc :
       ~(caller_pc[c] = "flushing" /\ thread_pc[t] = "publishing")
  /\ \A c \in Callers :
       (caller_pc[c] \in {"flushed", "exit"} /\ last.op = "publish")
         => NewlyEnqueued = <<>>

\* ======================================= claims: Spec (queue and flush) ====

\* C31: after every publish() call of an enabled publisher has returned, the
\* queue holds fewer than batch_size records, however many readings the call
\* accepted.
C31_QueueBounded ==
  (last.op = "publish" /\ enabled) => Len(message_queue) < batch_size

\* C36: a publish() call on a disabled publisher leaves the snapshots, the
\* queue, the offline buffer, publish_count, error_count and last_batch_time
\* as they were and makes no transport call; a publisher disabled since its
\* construction has an empty queue, no snapshot and zero counters.
C36_DisabledPublisherInert ==
  /\ (last.op = "publish" /\ ~enabled) =>
       /\ last_published_values = last.pre.last_published_values
       /\ message_queue = last.pre.message_queue
       /\ offline_buffer = last.pre.offline_buffer
       /\ publish_count = last.pre.publish_count
       /\ error_count = last.pre.error_count
       /\ last_batch_time = last.pre.last_batch_time
       /\ sent = last.pre.sent
       /\ ~last.attempt
  /\ ~enabled =>
       /\ message_queue = <<>>
       /\ last_published_values = EmptyMap
       /\ offline_buffer = <<>>
       /\ publish_count = 0
       /\ error_count = 0
       /\ sent = <<>>

\* C36 witness: a disabled publisher was handed ok readings in a second
\* publish() call, after the clock had passed max_batch_wait.
C36_Witness ==
  /\ ~enabled
  /\ last.op = "publish"
  /\ \E i \in 1..Len(last.input) :
       last.input[i].status = "ok" /\ last.input[i].id >= 2
  /\ now - last_batch_time >= max_batch_wait

\* C35: last_batch_time changes only in a flush attempt in which every
\* transport call succeeded, so a failed attempt leaves it as it was; and a
\* publish() call of an enabled publisher that accepts a reading when
\* max_batch_wait has passed since last_batch_time makes a flush attempt,
\* whatever the length of the queue.
C35_FailedFlushKeepsBatchTime ==
  /\ (last.attempt /\ Failed(last)) =>
       last_batch_time = last.pre.last_batch_time
  /\ last_batch_time # last.pre.last_batch_time =>
       (last.attempt /\ ~Failed(last) /\ last_batch_time = now)
  /\ ( /\ last.op = "publish"
       /\ enabled
       /\ NewlyEnqueued # <<>>
       /\ now - last.pre.last_batch_time >= max_batch_wait )
       => last.attempt

\* C35 witness: after an earlier failed attempt and with max_batch_wait
\* passed, a publish() call that left the queue shorter than batch_size made
\* another attempt, which failed too.
C35_Witness ==
  /\ last.op = "publish"
  /\ last.attempt
  /\ Failed(last)
  /\ last.pre.error_count >= 1
  /\ Len(last.pre.message_queue) + Len(NewlyEnqueued) < batch_size
  /\ now - last_batch_time >= max_batch_wait

\* ================================== claims: SpecApp (disabled config) ====

\* C34: while the configuration says cloud.enabled = false, no publish()
\* call of a collection tick enqueues a record or hands one to the
\* transport.
C34_DisabledConfigStopsPublishing ==
  (~cloud_config.enabled /\ last.op = "publish") =>
    (NewlyEnqueued = <<>> /\ sent = last.pre.sent)

\* ================================================== claims: SpecDrift ====

\* The readings of sensor s accepted by the last publish() call before its
\* i-th reading
AcceptedBefore(s, i) == {j \in AcceptedOf(s) : j < i}
Latest(S) == CHOOSE j \in S : \A k \in S : k <= j
\* Whether there is a last accepted metric map for the i-th reading of the
\* last publish() call, and that map: of the latest accepted reading of the
\* sensor earlier in the call, else the snapshot the call found.
HasReference(i) ==
  \/ AcceptedBefore(last.input[i].sensor_id, i) # {}
  \/ last.input[i].sensor_id \in DOMAIN last.pre.last_published_values
Reference(i) ==
  LET s == last.input[i].sensor_id
  IN IF AcceptedBefore(s, i) # {}
     THEN last.input[Latest(AcceptedBefore(s, i))].readings
     ELSE last.pre.last_published_values[s]

\* C33: a publish() call leaves the snapshot of every sensor without an
\* accepted reading as it was, and a call that accepts nothing leaves the
\* queue, the offline buffer and the counters as they were; an ok reading
\* with a last accepted value passes exactly when it differs from that value,
\* not from the last value seen, by more than the threshold.
C33_SuppressedChangesNothing ==
  last.op = "publish" =>
    /\ \A s \in SensorIds :
         AcceptedOf(s) = {} =>
           /\ (s \in DOMAIN last_published_values
                 <=> s \in DOMAIN last.pre.last_published_values)
           /\ s \in DOMAIN last_published_values =>
                last_published_values[s] = last.pre.last_published_values[s]
    /\ NewlyEnqueued = <<>> =>
         /\ message_queue = last.pre.message_queue
         /\ offline_buffer = last.pre.offline_buffer
         /\ publish_count = last.pre.publish_count
         /\ error_count = last.pre.error_count
         /\ last_batch_time = last.pre.last_batch_time
         /\ sent = last.pre.sent
    /\ \A i \in 1..Len(last.input) :
         HasReference(i) =>
           (last.input[i].id \in Range(NewlyEnqueued)
              <=> Abs(last.input[i].readings["temperature"]
                        - Reference(i)["temperature"]) > MaxThreshold)

\* C33 witness: a slow drift in one call; a reading was accepted, the next
\* one moved within the threshold and was suppressed, and the third one,
\* within the threshold of the suppressed reading, was accepted.
C33_Witness ==
  /\ last.op = "publish"
  /\ \E i, j, k \in 1..Len(last.input) :
       /\ i < j /\ j < k
       /\ last.input[i].id \in Range(NewlyEnqueued)
       /\ last.input[j].id \notin Range(NewlyEnqueued)
       /\ last.input[j].readings # last.input[i].readings
       /\ last.input[k].id \in Range(NewlyEnqueued)
       /\ Abs(last.input[k].readings["temperature"]
                - last.input[j].readings["temperature"]) <= MaxThreshold

\* ============================================ claims: Spec (snapshots) ====

\* C32: the snapshots are exactly the metric maps of the most recently
\* enqueued record of every sensor, wherever that record is now, and a
\* flush() or shutdown() call, failed or not, leaves the snapshots as they
\* were.
C32_SnapshotIsLastEnqueued ==
  /\ DOMAIN last_published_values = DOMAIN enq_last
  /\ \A s \in DOMAIN enq_last : last_published_values[s] = enq_last[s]
  /\ last.op \in {"flush", "shutdown"} =>
       last_published_values = last.pre.last_published_values

\* C32 witness: sensor s1 had two records enqueued; none is queued any more,
\* one record was delivered, and the last flush attempt failed.
C32_Witness ==
  /\ last.attempt
  /\ Failed(last)
  /\ message_queue = <<>>
  /\ sent # <<>>
  /\ offline_buffer # <<>>
  /\ Len(enq_log) >= 2
  /\ DOMAIN last_published_values = {"s1"}

\* =================================================== claims: SpecRead ====

=============================================================================
